---- MODULE Spec2Model ----
(***************************************************************************)
(* Verification model of the payroll service of the HR/payroll suite:      *)
(*   - the payroll-cycle table and its lifecycle routes                    *)
(*     (server/routes/payroll-service.js),                                 *)
(*   - SSO user provisioning (upsertPayrollUser, verifyHrSsoToken,         *)
(*     GET /sso),                                                          *)
(*   - PIN setup and PIN login (POST /setup-pin, POST /login-pin).         *)
(* The relational database is modelled by what the statements of the code  *)
(* rely on: single statements are atomic, constraints of the migrations    *)
(* are enforced, and a handler may be suspended between two statements.    *)
(***************************************************************************)
EXTENDS Integers, Sequences, FiniteSets, TLC

VARIABLES
    cycles,     \* payroll.payroll_cycles: sequence of rows, a row's id is its index
    now,        \* the server clock as <<year, month>> (new Date())
    flight,     \* process handlers suspended between their SELECT and their UPDATE
    resp,       \* the last response sent by a payroll-cycle route
    users,      \* public.users as committed: sequence of rows, a row's id is its index
    txs,        \* per concurrent GET /sso request: its upsertPayrollUser transaction
    ssoResp,    \* the last response sent by GET /sso
    pinFlight,  \* setup-pin handlers suspended between their SELECT and their UPDATE
    pinResp,    \* the last response sent by POST /setup-pin or POST /login-pin
    store,      \* payroll.employees, compensation_structures, payroll_items, leave and attendance rows
    accResp,    \* the last response sent by an employee, payslip, stats or preview route
    rec,        \* an employee object handed to maskEmployeeData
    audited     \* payroll.audit_logs: the rows appended by the latest step

cycleVars == <<cycles, now, flight, resp>>

userVars == <<users, txs, ssoResp, pinFlight, pinResp>>

dataVars == <<store, accResp, rec>>

vars == <<cycles, now, flight, resp, users, txs, ssoResp, pinFlight, pinResp, store, accResp, rec, audited>>

----------------------------------------------------------------------------
(* Bounds of the model *)

MaxCycles == 2

Tenants == {"tA", "tB"}

----------------------------------------------------------------------------
(* payroll.payroll_status *)

Statuses == {"draft", "pending_approval", "approved", "processing", "completed", "failed"}

NoResp == [op |-> "none", code |-> 0, named |-> "-"]

Response(op, code, named) == [op |-> op, code |-> code, named |-> named]

\* a row of payroll.audit_logs as auditPayroll is called with it
AuditEntry(tenantId, action, entityType, entityId) ==
    [tenant_id |-> tenantId, action |-> action,
     entity_type |-> entityType, entity_id |-> entityId]

\* the audit write either stores its row or fails (audit unavailability);
\* the promise auditPayroll returns is then fulfilled or rejected
AuditOutcomes == {"written", "failed"}

\* auditPayroll(entry): the rows it appends to payroll.audit_logs
AuditPayroll(entry, outcome) == IF outcome = "written" THEN {entry} ELSE {}

\* an awaited auditPayroll call that rejects throws into the handler's catch
Throws(outcome) == outcome = "failed"

----------------------------------------------------------------------------
(* Request inputs.  Month and year arrive as JSON text and go through      *)
(* parseInt(x, 10); they are modelled as character sequences so that the   *)
(* conversion is computed, not assumed.                                    *)

DigitChars == <<"0", "1", "2", "3", "4", "5", "6", "7", "8", "9">>

IsDigit(c) == \E i \in DOMAIN DigitChars : DigitChars[i] = c

DigitVal(c) == (CHOOSE i \in DOMAIN DigitChars : DigitChars[i] = c) - 1

NaN == 0 - 1

RECURSIVE ParseDigits(_, _)
ParseDigits(s, acc) ==
    IF s = <<>> \/ ~IsDigit(Head(s))
    THEN acc
    ELSE ParseDigits(Tail(s), acc * 10 + DigitVal(Head(s)))

\* parseInt(s, 10): the value of the longest prefix of decimal digits, NaN if none
ParseInt(s) == IF s = <<>> \/ ~IsDigit(Head(s)) THEN NaN ELSE ParseDigits(s, 0)

\* !x of JavaScript for a string: only the empty (or missing) string is falsy
Falsy(s) == s = <<>>

Body(m, y, p) == [month |-> m, year |-> y, payday |-> p]

Y2024 == <<"2", "0", "2", "4">>

Y2025 == <<"2", "0", "2", "5">>

\* request bodies that pass the validation and the CHECK constraints
GoodBodies ==
    { Body(<<"2">>, Y2024, 25), Body(<<"0", "2">>, Y2024, 25), Body(<<"1">>, Y2025, 25) }

\* request bodies with a missing field, an unparsable or out-of-range month,
\* or an out-of-range payday (0 stands for a missing payday)
BadBodies ==
    { Body(<<>>, Y2025, 25), Body(<<"1">>, <<>>, 25), Body(<<"1">>, Y2025, 0),
      Body(<<"1", "3">>, Y2025, 25), Body(<<"x">>, Y2025, 25), Body(<<"1">>, Y2025, 40) }

CreateBodies == GoodBodies \cup BadBodies

----------------------------------------------------------------------------
(* payroll.payroll_cycles and its constraints.  The table is kept as a     *)
(* function from (tenant_id, month, year) to the sequence of the statuses  *)
(* of the rows stored with that key, oldest first; a row's id is its key   *)
(* and its position, so ids are unique and never reused.                   *)

Keys == {<<t, ParseInt(b.month), ParseInt(b.year)>> : t \in Tenants, b \in GoodBodies}

RowId(key, k) == [key |-> key, k |-> k]

RowIds(table) == UNION {{RowId(key, k) : k \in DOMAIN table[key]} : key \in Keys}

\* an id no row has
NoSuchId == RowId(<<"tA", 0, 0>>, 1)

StatusOf(table, id) == table[id.key][id.k]

TenantOf(id) == id.key[1]

MonthOf(id) == id.key[2]

YearOf(id) == id.key[3]

RECURSIVE SumLen(_, _)
SumLen(table, ks) ==
    IF ks = {} THEN 0
    ELSE LET key == CHOOSE x \in ks : TRUE
         IN  Len(table[key]) + SumLen(table, ks \ {key})

TotalRows(table) == SumLen(table, Keys)

EmptyTable == [key \in Keys |-> <<>>]

\* CHECK (month >= 1 AND month <= 12), year INTEGER NOT NULL,
\* CHECK (payday >= 1 AND payday <= 31)
ChecksPass(m, y, p) == m >= 1 /\ m <= 12 /\ y # NaN /\ p >= 1 /\ p <= 31

\* a table without the UNIQUE(tenant_id, month, year) constraint
UniqueViolationMut(table, t, m, y) == FALSE

\* UNIQUE(tenant_id, month, year): the INSERT raises 23505
UniqueViolation(table, t, m, y) == Len(table[<<t, m, y>>]) > 0

\* INSERT INTO payroll.payroll_cycles (...) VALUES (t, ..., m, y, ..., 'draft', ...)
InsertCycle(table, t, m, y) ==
    [table EXCEPT ![<<t, m, y>>] = Append(@, "draft")]

\* the auto-complete WHERE clause without its status != 'failed' conjunct
IsPastOpenMut(table, id, t, y, m) ==
    /\ id.key[1] = t
    /\ table[id.key][id.k] # "completed"
    /\ (id.key[3] < y \/ (id.key[3] = y /\ id.key[2] < m))

\* the WHERE clause of the auto-complete UPDATE of GET /payroll-cycles
IsPastOpen(table, id, t, y, m) ==
    /\ TenantOf(id) = t
    /\ StatusOf(table, id) # "completed"
    /\ StatusOf(table, id) # "failed"
    /\ (YearOf(id) < y \/ (YearOf(id) = y /\ MonthOf(id) < m))

\* the UPDATE of GET /payroll-cycles
AutoComplete(table, t, y, m) ==
    [key \in Keys |->
        [k \in DOMAIN table[key] |->
            IF IsPastOpen(table, RowId(key, k), t, y, m)
            THEN "completed"
            ELSE table[key][k]]]

\* WHERE id = cid AND tenant_id = t
Matches(table, id, cid, t) == id = cid /\ TenantOf(id) = t

\* UPDATE payroll.payroll_cycles SET status = s WHERE id = cid AND tenant_id = t
SetStatus(table, cid, t, s) ==
    [key \in Keys |->
        [k \in DOMAIN table[key] |->
            IF Matches(table, RowId(key, k), cid, t) THEN s ELSE table[key][k]]]

\* SELECT * FROM payroll.payroll_cycles WHERE id = cid AND tenant_id = t
FindCycle(table, cid, t) == {id \in RowIds(table) : Matches(table, id, cid, t)}

----------------------------------------------------------------------------
(* The payroll-cycle routes.  t is req.tenantId of a caller that passed    *)
(* requireAuthWithTenant and requireCapability.                            *)

\* POST /payroll-cycles
CreateCycle(t, b) ==
    /\ UNCHANGED <<now, flight>>
    /\ UNCHANGED <<userVars, dataVars>>
    /\ IF Falsy(b.month) \/ Falsy(b.year) \/ b.payday = 0
       THEN /\ resp' = Response("create", 400, "-")
            /\ UNCHANGED cycles
            /\ audited' = {}
       ELSE LET m == ParseInt(b.month)
                y == ParseInt(b.year)
            IN  IF ~ChecksPass(m, y, b.payday)
                THEN /\ resp' = Response("create", 500, "-")
                     /\ UNCHANGED cycles
                     /\ audited' = {}
                ELSE IF UniqueViolation(cycles, t, m, y)
                THEN /\ resp' = Response("create", 409, "-")
                     /\ UNCHANGED cycles
                     /\ audited' = {}
                ELSE /\ TotalRows(cycles) < MaxCycles
                     /\ cycles' = InsertCycle(cycles, t, m, y)
                     /\ \E outcome \in AuditOutcomes :
                          LET id == RowId(<<t, m, y>>, Len(cycles[<<t, m, y>>]) + 1)
                          IN  /\ audited' = AuditPayroll(
                                     AuditEntry(t, "payroll_cycle_created",
                                                "payroll_cycle", id), outcome)
                              /\ resp' = IF Throws(outcome)
                                         THEN Response("create", 500, "-")
                                         ELSE Response("create", 201, "-")

\* POST /payroll-cycles/:cycleId/submit
SubmitCycle(t, cid) ==
    /\ cycles' = SetStatus(cycles, cid, t, "pending_approval")
    /\ resp' = Response("submit", 200, "-")
    /\ UNCHANGED <<now, flight>>
    /\ UNCHANGED <<userVars, dataVars>>
    /\ audited' = {}

\* POST /payroll-cycles/:cycleId/approve
ApproveCycle(t, cid) ==
    /\ cycles' = SetStatus(cycles, cid, t, "approved")
    /\ resp' = Response("approve", 200, "-")
    /\ UNCHANGED <<now, flight>>
    /\ UNCHANGED <<userVars, dataVars>>
    /\ audited' = {}

\* POST /payroll-cycles/:cycleId/reject
RejectCycle(t, cid) ==
    /\ cycles' = SetStatus(cycles, cid, t, "draft")
    /\ resp' = Response("reject", 200, "-")
    /\ UNCHANGED <<now, flight>>
    /\ UNCHANGED <<userVars, dataVars>>
    /\ audited' = {}

\* a status test that also lets a draft cycle through
MayProcessMut(status) == status \in {"approved", "draft"}

\* the status test of the process route
MayProcess(status) == status = "approved"

\* POST /payroll-cycles/:cycleId/process, up to the await of its UPDATE
ProcessRead(t, cid) ==
    /\ UNCHANGED <<cycles, now>>
    /\ UNCHANGED <<userVars, dataVars>>
    /\ audited' = {}
    /\ IF FindCycle(cycles, cid, t) = {}
       THEN /\ resp' = Response("process", 404, "-")
            /\ UNCHANGED flight
       ELSE IF ~MayProcess(StatusOf(cycles, cid))
       THEN /\ resp' = Response("process", 400, StatusOf(cycles, cid))
            /\ UNCHANGED flight
       ELSE /\ flight' = flight \cup {[tenant |-> t, cid |-> cid]}
            /\ UNCHANGED resp

\* POST /payroll-cycles/:cycleId/process, its UPDATE and its response
ProcessWrite(f) ==
    /\ f \in flight
    /\ cycles' = SetStatus(cycles, f.cid, f.tenant, "processing")
    /\ flight' = flight \ {f}
    /\ \E outcome \in AuditOutcomes :
          /\ audited' = AuditPayroll(
                 AuditEntry(f.tenant, "payroll_cycle_processed",
                            "payroll_cycle", f.cid), outcome)
          /\ resp' = IF Throws(outcome)
                     THEN Response("process", 500, "-")
                     ELSE Response("process", 200, "-")
    /\ UNCHANGED now
    /\ UNCHANGED <<userVars, dataVars>>

\* GET /payroll-cycles: the auto-complete UPDATE, then the SELECT of the
\* caller's rows.  The SELECT writes nothing; the handler is one step.
ListCycles(t) ==
    /\ cycles' = AutoComplete(cycles, t, now[1], now[2])
    /\ resp' = Response("list", 200, "-")
    /\ UNCHANGED <<now, flight>>
    /\ UNCHANGED <<userVars, dataVars>>
    /\ audited' = {}

\* the calendar month of the server clock advances
FirstNow == <<2025, 1>>

LastNow == <<2025, 2>>

Tick ==
    /\ now # LastNow
    /\ now' = IF now[2] < 12 THEN <<now[1], now[2] + 1>> ELSE <<now[1] + 1, 1>>
    /\ UNCHANGED <<cycles, flight, resp>>
    /\ UNCHANGED <<userVars, dataVars>>
    /\ audited' = {}

----------------------------------------------------------------------------
(* Strings of the user-facing routes are character sequences, so that      *)
(* toLowerCase, trim, split and the PIN pattern are computed.              *)

UpperChars ==
    << "A", "B", "C", "D", "E", "F", "G", "H", "I", "J", "K", "L", "M",
       "N", "O", "P", "Q", "R", "S", "T", "U", "V", "W", "X", "Y", "Z" >>

LowerChars ==
    << "a", "b", "c", "d", "e", "f", "g", "h", "i", "j", "k", "l", "m",
       "n", "o", "p", "q", "r", "s", "t", "u", "v", "w", "x", "y", "z" >>

ToLowerChar(c) ==
    IF \E i \in DOMAIN UpperChars : UpperChars[i] = c
    THEN LowerChars[CHOOSE i \in DOMAIN UpperChars : UpperChars[i] = c]
    ELSE c

ToLowerCase(s) == [i \in DOMAIN s |-> ToLowerChar(s[i])]

RECURSIVE TrimLeft(_)
TrimLeft(s) == IF s # <<>> /\ Head(s) = " " THEN TrimLeft(Tail(s)) ELSE s

RECURSIVE TrimRight(_)
TrimRight(s) ==
    IF s # <<>> /\ s[Len(s)] = " " THEN TrimRight(SubSeq(s, 1, Len(s) - 1)) ELSE s

Trim(s) == TrimRight(TrimLeft(s))

\* email.toLowerCase().trim()
NormalizeEmail(s) == Trim(ToLowerCase(s))

RECURSIVE SplitAcc(_, _, _)
SplitAcc(s, cur, acc) ==
    IF s = <<>> THEN Append(acc, cur)
    ELSE IF Head(s) = " " THEN SplitAcc(Tail(s), <<>>, Append(acc, cur))
    ELSE SplitAcc(Tail(s), Append(cur, Head(s)), acc)

\* name.split(' ')
Split(s) == SplitAcc(s, <<>>, <<>>)

RECURSIVE JoinWords(_)
JoinWords(ws) ==
    IF ws = <<>> THEN <<>>
    ELSE IF Len(ws) = 1 THEN ws[1]
    ELSE ws[1] \o <<" ">> \o JoinWords(Tail(ws))

\* nameParts[0] || ''
FirstName(name) == Split(name)[1]

\* nameParts.slice(1).join(' ') || ''
LastName(name) == JoinWords(Tail(Split(name)))

----------------------------------------------------------------------------
(* public.users *)

NULL == "NULL"

\* pin_hash IS NULL
NoPin == [pin |-> <<>>, salt |-> "-"]

UserRow(email, hr, org, role, first, last, pin) ==
    [email |-> email, hr_user_id |-> hr, org_id |-> org, payroll_role |-> role,
     first_name |-> first, last_name |-> last, pin_hash |-> pin]

\* a row created by sign-up, not yet linked to an HR identity
SignupRow(email) == UserRow(email, NULL, NULL, NULL, <<>>, <<>>, NoPin)

FindByHrIdMut(table, h) == {}

\* WHERE hr_user_id = $1
FindByHrId(table, h) == {i \in DOMAIN table : table[i].hr_user_id = h}

\* WHERE email = $1
FindByEmail(table, e) == {i \in DOMAIN table : table[i].email = e}

----------------------------------------------------------------------------
(* verifyHrSsoToken.  A token is what jwt.verify and the middleware read   *)
(* of it: whether it is there, whether its signature verifies, whether it  *)
(* is expired, and its claims.  The shared secret is configured.           *)

Token(present, sig, exp, iss, aud, sub, org, email, name, roles, prole) ==
    [present |-> present, sig |-> sig, exp |-> exp, iss |-> iss, aud |-> aud,
     sub |-> sub, org_id |-> org, email |-> email, name |-> name, roles |-> roles,
     payroll_role |-> prole]

\* role names of the HR portal, as the strings a token carries
Staff == <<"S", "t", "a", "f", "f">>

\* new Set(['CEO', 'Admin', 'HR', 'ceo', 'admin', 'hr'])
AdminSet ==
    { <<"C", "E", "O">>, <<"A", "d", "m", "i", "n">>, <<"H", "R">>,
      <<"c", "e", "o">>, <<"a", "d", "m", "i", "n">>, <<"h", "r">> }

MapHrToPayrollRole(hrRoles) ==
    IF hrRoles \cap AdminSet # {} THEN "payroll_admin" ELSE "payroll_employee"

\* jwt.verify(token, secret): the signature is checked before the expiry
JwtVerify(tok) ==
    IF tok.sig # "ok" THEN "JsonWebTokenError"
    ELSE IF tok.exp = "past" THEN "TokenExpiredError"
    ELSE "ok"

Rejected(code, error) == [code |-> code, error |-> error, hrUser |-> NULL]

HrUser(tok) ==
    [hrUserId |-> tok.sub,
     orgId |-> tok.org_id,
     email |-> NormalizeEmail(tok.email),
     name |-> IF tok.name # <<>> THEN tok.name ELSE tok.email,
     payrollRole |-> IF tok.payroll_role # "" THEN tok.payroll_role
                     ELSE MapHrToPayrollRole(tok.roles)]

IssuerOkMut(tok) == TRUE

\* the issuer test of the middleware
IssuerOk(tok) == tok.iss = "hr-app"

VerifyHrSsoToken(tok) ==
    IF ~tok.present THEN Rejected(401, "SSO token required")
    ELSE IF JwtVerify(tok) = "TokenExpiredError" THEN Rejected(401, "Token expired")
    ELSE IF JwtVerify(tok) = "JsonWebTokenError" THEN Rejected(401, "Invalid token")
    ELSE IF ~IssuerOk(tok) THEN Rejected(401, "Invalid token issuer")
    ELSE IF tok.aud # "payroll-app" THEN Rejected(401, "Invalid token audience")
    ELSE IF tok.exp = "past" THEN Rejected(401, "Token expired")
    ELSE IF tok.sub = "" \/ tok.org_id = "" \/ tok.email = <<>>
         THEN Rejected(401, "Invalid token claims")
    ELSE [code |-> 200, error |-> "-", hrUser |-> HrUser(tok)]

\* tokens the HR portal issues
Ann == <<"A", "n", " ", "L">>

GoodTokens ==
    { Token(TRUE, "ok", "future", "hr-app", "payroll-app", "h1", "o1", <<"A">>, Ann, {<<"H", "R">>}, ""),
      Token(TRUE, "ok", "none", "hr-app", "payroll-app", "h1", "o1", <<"b", " ">>, <<"A", "n">>,
            {Staff}, ""),
      Token(TRUE, "ok", "future", "hr-app", "payroll-app", "h2", "o2", <<"a">>, <<"B">>, {},
            "payroll_employee") }

GoodToken == Token(TRUE, "ok", "future", "hr-app", "payroll-app", "h1", "o1", <<"A">>, Ann, {<<"H", "R">>}, "")

\* tokens with one or several defects
BadTokens ==
    { [GoodToken EXCEPT !.present = FALSE],
      [GoodToken EXCEPT !.sig = "bad"],
      [GoodToken EXCEPT !.sig = "bad", !.exp = "past"],
      [GoodToken EXCEPT !.exp = "past"],
      [GoodToken EXCEPT !.exp = "past", !.iss = "other-app"],
      [GoodToken EXCEPT !.iss = "other-app"],
      [GoodToken EXCEPT !.iss = "other-app", !.aud = "hr-app"],
      [GoodToken EXCEPT !.aud = "hr-app"],
      [GoodToken EXCEPT !.sub = ""],
      [GoodToken EXCEPT !.org_id = ""],
      [GoodToken EXCEPT !.email = <<>>] }

Tokens == GoodTokens \cup BadTokens

----------------------------------------------------------------------------
(* upsertPayrollUser: one transaction per call, READ COMMITTED.  A         *)
(* statement sees the committed table and the transaction's own writes;    *)
(* a write to a row another transaction has written, or of an email        *)
(* another transaction has written, waits for that transaction to end.     *)

Procs == {1, 2}

NoHrUser == [hrUserId |-> NULL, orgId |-> NULL, email |-> <<>>, name |-> <<>>, payrollRole |-> NULL]

NoRows == [i \in {} |-> NULL]

IdleTx == [pc |-> "idle", hrUser |-> NoHrUser, upd |-> NoRows, ins |-> <<>>, uid |-> 0]

SsoResponse(code, error, token, uid, setup) ==
    [code |-> code, error |-> error, token |-> token, uid |-> uid, requiresPinSetup |-> setup]

NoSsoResp == SsoResponse(0, "-", FALSE, 0, FALSE)

Others(p) == Procs \ {p}

LockedByOther(p, id) == \E q \in Others(p) : id \in DOMAIN txs[q].upd

EmailsWrittenByOthers(p) ==
    UNION { {txs[q].upd[i].email : i \in DOMAIN txs[q].upd} \cup
            {txs[q].ins[i].email : i \in DOMAIN txs[q].ins} : q \in Others(p) }

\* what the statements of transaction p see
View(p) ==
    [i \in DOMAIN users |-> IF i \in DOMAIN txs[p].upd THEN txs[p].upd[i] ELSE users[i]]
        \o txs[p].ins

RolledBackMut(p) == View(p)

\* the committed table after ROLLBACK of transaction p
RolledBack(p) == users

\* UNIQUE (email), checked for a write of email e to the rows `own`
EmailTaken(e, own) == \E j \in DOMAIN users \ own : users[j].email = e

\* the write must wait: a row it touches, or the email it writes, is in the
\* uncommitted writes of another transaction
MustWait(p, e, own) ==
    \/ \E i \in own : LockedByOther(p, i)
    \/ \E j \in DOMAIN users \ own : users[j].email = e /\ LockedByOther(p, j)
    \/ e \in EmailsWrittenByOthers(p)

\* catch (error) { ROLLBACK; throw error } and the 500 of GET /sso
Rollback(p) ==
    /\ users' = RolledBack(p)
    /\ txs' = [txs EXCEPT ![p] = IdleTx]
    /\ ssoResp' = SsoResponse(500, "Failed to provision user", FALSE, 0, FALSE)

\* GET /sso: verifyHrSsoToken, then BEGIN
SsoBegin(p, tok) ==
    /\ txs[p].pc = "idle"
    /\ \A q \in Procs : q < p => txs[q].pc # "idle"
    /\ UNCHANGED <<cycleVars, dataVars, users, pinFlight, pinResp>>
    /\ audited' = {}
    /\ LET v == VerifyHrSsoToken(tok)
       IN  IF v.code # 200
           THEN /\ ssoResp' = SsoResponse(v.code, v.error, FALSE, 0, FALSE)
                /\ UNCHANGED txs
           ELSE /\ txs' = [txs EXCEPT ![p] = [IdleTx EXCEPT !.pc = "sel1", !.hrUser = v.hrUser]]
                /\ UNCHANGED ssoResp

\* SELECT ... WHERE hr_user_id = $1
SelectByHrId(p) ==
    /\ txs[p].pc = "sel1"
    /\ txs' = [txs EXCEPT ![p].pc =
                  IF FindByHrId(View(p), txs[p].hrUser.hrUserId) # {} THEN "upd1" ELSE "sel2"]
    /\ UNCHANGED <<cycleVars, dataVars, users, ssoResp, pinFlight, pinResp>>
    /\ audited' = {}

\* UPDATE users SET email, org_id, payroll_role, first_name, last_name
\* WHERE hr_user_id = $6
UpdateByHrId(p) ==
    /\ txs[p].pc = "upd1"
    /\ UNCHANGED <<cycleVars, dataVars, pinFlight, pinResp>>
    /\ audited' = {}
    /\ LET u == txs[p].hrUser
           own == FindByHrId(users, u.hrUserId)
       IN  /\ ~MustWait(p, u.email, own)
           /\ IF own # {} /\ (Cardinality(own) > 1 \/ EmailTaken(u.email, own))
              THEN Rollback(p)
              ELSE /\ txs' = [txs EXCEPT ![p].pc = "resel",
                                         ![p].upd = [i \in own |->
                                             [users[i] EXCEPT !.email = u.email,
                                                              !.org_id = u.orgId,
                                                              !.payroll_role = u.payrollRole,
                                                              !.first_name = FirstName(u.name),
                                                              !.last_name = LastName(u.name)]]]
                   /\ UNCHANGED <<users, ssoResp>>

\* SELECT ... WHERE email = $1
SelectByEmail(p) ==
    /\ txs[p].pc = "sel2"
    /\ txs' = [txs EXCEPT ![p].pc =
                  IF FindByEmail(View(p), txs[p].hrUser.email) # {} THEN "upd2" ELSE "ins"]
    /\ UNCHANGED <<cycleVars, dataVars, users, ssoResp, pinFlight, pinResp>>
    /\ audited' = {}

\* a link that overwrites the external id only of rows that have none
LinkedMut(row, u) ==
    [row EXCEPT !.hr_user_id = IF @ = NULL THEN u.hrUserId ELSE @,
                !.org_id = u.orgId,
                !.payroll_role = u.payrollRole,
                !.first_name = FirstName(u.name),
                !.last_name = LastName(u.name)]

\* SET hr_user_id = $1, org_id = $2, payroll_role = $3, first_name = $4,
\* last_name = $5 on a row
Linked(row, u) ==
    [row EXCEPT !.hr_user_id = u.hrUserId,
                !.org_id = u.orgId,
                !.payroll_role = u.payrollRole,
                !.first_name = FirstName(u.name),
                !.last_name = LastName(u.name)]

\* UPDATE users SET hr_user_id, org_id, payroll_role, first_name, last_name
\* WHERE email = $6
UpdateByEmail(p) ==
    /\ txs[p].pc = "upd2"
    /\ UNCHANGED <<cycleVars, dataVars, users, ssoResp, pinFlight, pinResp>>
    /\ audited' = {}
    /\ LET u == txs[p].hrUser
           own == FindByEmail(users, u.email)
       IN  /\ \A i \in own : ~LockedByOther(p, i)
           /\ txs' = [txs EXCEPT ![p].pc = "resel",
                                 ![p].upd = [i \in own |-> Linked(users[i], u)]]

\* SELECT ... WHERE hr_user_id = $1 after the UPDATE; user = rows[0], and
\* user.email of an empty result throws
Reselect(p) ==
    /\ txs[p].pc = "resel"
    /\ UNCHANGED <<cycleVars, dataVars, pinFlight, pinResp>>
    /\ audited' = {}
    /\ LET found == FindByHrId(View(p), txs[p].hrUser.hrUserId)
       IN  IF found = {}
           THEN Rollback(p)
           ELSE /\ \E i \in found : txs' = [txs EXCEPT ![p].pc = "commit", ![p].uid = i]
                /\ UNCHANGED <<users, ssoResp>>

\* INSERT INTO users (hr_user_id, email, org_id, payroll_role, first_name, last_name)
InsertUser(p) ==
    /\ txs[p].pc = "ins"
    /\ UNCHANGED <<cycleVars, dataVars, pinFlight, pinResp>>
    /\ audited' = {}
    /\ LET u == txs[p].hrUser
       IN  /\ ~MustWait(p, u.email, {})
           /\ IF EmailTaken(u.email, {})
              THEN Rollback(p)
              ELSE /\ txs' = [txs EXCEPT ![p].pc = "commit",
                                         ![p].ins = <<UserRow(u.email, u.hrUserId, u.orgId,
                                                              u.payrollRole, FirstName(u.name),
                                                              LastName(u.name), NoPin)>>]
                   /\ UNCHANGED <<users, ssoResp>>

\* COMMIT, then the rest of GET /sso: the pin_hash lookup, the session
\* token and cookie, the audit write, the response
CommitUser(p) ==
    /\ txs[p].pc = "commit"
    /\ users' = View(p)
    /\ txs' = [txs EXCEPT ![p] = IdleTx]
    /\ LET uid == IF txs[p].uid # 0 THEN txs[p].uid ELSE Len(users')
       IN  /\ ssoResp' = SsoResponse(200, "-", TRUE, uid, users'[uid].pin_hash = NoPin)
           \* auditPayroll(...).catch(() => {}): a rejection is swallowed
           /\ \E outcome \in AuditOutcomes :
                 audited' = AuditPayroll(
                    AuditEntry(users'[uid].org_id, "payroll_salary_viewed", "sso", uid),
                    outcome)
    /\ UNCHANGED <<cycleVars, dataVars, pinFlight, pinResp>>

\* any statement of the transaction may fail (connection lost, timeout)
StatementFails(p) ==
    /\ txs[p].pc # "idle"
    /\ Rollback(p)
    /\ UNCHANGED <<cycleVars, dataVars, pinFlight, pinResp>>
    /\ audited' = {}

----------------------------------------------------------------------------
(* POST /login-pin and POST /setup-pin *)

Pin1 == <<"1", "2", "3", "4", "5", "6">>

Pin2 == <<"6", "5", "4", "3", "2", "1">>

\* request bodies' pin: two well-formed PINs, a missing one, malformed ones
Pins ==
    { Pin1, Pin2, <<>>, <<"1", "2", "3", "4", "5">>, <<"1", "2", "3", "4", "5", "x">>,
      <<"1", "2", "3", "4", "5", "6", "7">> }

\* request bodies' email: stored addresses in other spellings, an unknown
\* address, a missing one
PinEmails == { <<"A">>, <<" ", "a">>, <<"b">>, <<"B", " ">>, <<"c">>, <<>> }

\* /^\d{6}$/.test(pin)
PinFormatOk(pin) == Len(pin) = 6 /\ \A i \in DOMAIN pin : IsDigit(pin[i])

\* bcrypt.hash(pin, 10) draws a salt
Salts == {"s1", "s2"}

Hash(pin, salt) == [pin |-> pin, salt |-> salt]

CompareMut(pin, hash) == TRUE

\* bcrypt.compare(pin, hash)
Compare(pin, hash) == Hash(pin, hash.salt) = hash

PinResponse(op, code, error, token, uid) ==
    [op |-> op, code |-> code, error |-> error, token |-> token, uid |-> uid]

NoPinResp == PinResponse("none", 0, "-", FALSE, 0)

\* the response POST /login-pin computes from the users table it reads
LoginPinResult(table, email, pin) ==
    LET loweredEmail == NormalizeEmail(email)
        rows == FindByEmail(table, loweredEmail)
    IN  IF email = <<>> \/ pin = <<>>
        THEN PinResponse("login", 400, "email and pin required", FALSE, 0)
        ELSE IF ~PinFormatOk(pin)
        THEN PinResponse("login", 400, "PIN must be exactly 6 digits", FALSE, 0)
        ELSE IF rows = {}
        THEN PinResponse("login", 401, "Invalid credentials", FALSE, 0)
        ELSE LET i == CHOOSE i \in rows : TRUE
             IN  IF table[i].pin_hash = NoPin
                 THEN PinResponse("login", 403, "PIN not set", FALSE, 0)
                 ELSE IF ~Compare(pin, table[i].pin_hash)
                 THEN PinResponse("login", 401, "Invalid PIN", FALSE, 0)
                 ELSE PinResponse("login", 200, "-", TRUE, i)

\* POST /login-pin
LoginPin(email, pin) ==
    /\ UNCHANGED <<cycleVars, dataVars, users, txs, ssoResp, pinFlight>>
    /\ audited' = {}
    /\ pinResp' = LoginPinResult(users, email, pin)

\* POST /setup-pin up to the SELECT and the tests on its result
SetupPinRead(email, pin) ==
    /\ UNCHANGED <<cycleVars, dataVars, users, txs, ssoResp>>
    /\ audited' = {}
    /\ LET loweredEmail == NormalizeEmail(email)
           rows == FindByEmail(users, loweredEmail)
       IN  IF email = <<>> \/ pin = <<>>
           THEN /\ pinResp' = PinResponse("setup", 400, "email and pin required", FALSE, 0)
                /\ UNCHANGED pinFlight
           ELSE IF ~PinFormatOk(pin)
           THEN /\ pinResp' = PinResponse("setup", 400, "PIN must be exactly 6 digits", FALSE, 0)
                /\ UNCHANGED pinFlight
           ELSE IF rows = {}
           THEN /\ pinResp' = PinResponse("setup", 404, "User not found", FALSE, 0)
                /\ UNCHANGED pinFlight
           ELSE \E i \in rows :
                  IF users[i].pin_hash # NoPin
                  THEN /\ pinResp' = PinResponse("setup", 409, "PIN already set. Use login to sign in.",
                                                 FALSE, 0)
                       /\ UNCHANGED pinFlight
                  ELSE /\ pinFlight' = pinFlight \cup {[uid |-> i, pin |-> pin]}
                       /\ UNCHANGED pinResp

\* POST /setup-pin from bcrypt.hash on: UPDATE users SET pin_hash = $1
\* WHERE id = $2, then the session token and the response
SetupPinWrite(f, salt) ==
    /\ f \in pinFlight
    /\ users' = [users EXCEPT ![f.uid].pin_hash = Hash(f.pin, salt)]
    /\ pinFlight' = pinFlight \ {f}
    /\ pinResp' = PinResponse("setup", 200, "-", TRUE, f.uid)
    /\ UNCHANGED <<cycleVars, dataVars, txs, ssoResp>>
    /\ audited' = {}

----------------------------------------------------------------------------
(* utils/dataMasking.js.  A text value is a character sequence; null and   *)
(* undefined are one-element sequences that no text equals.                *)

Null == <<"null">>

Undefined == <<"undefined">>

NullNum == 0 - 1

UndefinedNum == 0 - 2

Stars4 == <<"*", "*", "*", "*">>

XXXX == <<"X", "X", "X", "X">>

XXXXX == <<"X", "X", "X", "X", "X">>

BankPrefix == <<".", ".", ".", "-", "X", "X", "-">>

AadhaarAll == <<"X", "X", "X", "X", " ", "X", "X", "X", "X", " ", "X", "X", "X", "X">>

AadhaarPrefix == <<"X", "X", "X", "X", " ", "X", "X", "X", "X", " ">>

\* !value || typeof value !== 'string'
NotText(v) == v = Null \/ v = Undefined \/ v = <<>>

UpperOf(c) ==
    IF \E i \in DOMAIN LowerChars : LowerChars[i] = c
    THEN UpperChars[CHOOSE i \in DOMAIN LowerChars : LowerChars[i] = c]
    ELSE c

ToUpperCase(v) == [i \in DOMAIN v |-> UpperOf(v[i])]

\* value.replace(/\D/g, '')
OnlyDigits(v) == SelectSeq(v, IsDigit)

IsNotSpace(c) == c # " "

\* value.replace(/\s/g, '')
NoSpaces(v) == SelectSeq(v, IsNotSpace)

\* value.slice(-4)
Last4(v) == SubSeq(v, Len(v) - 3, Len(v))

MaskBankAccount(accountNumber) ==
    IF NotText(accountNumber) THEN Null
    ELSE LET cleaned == OnlyDigits(accountNumber)
         IN  IF Len(cleaned) < 4 THEN Stars4
             ELSE BankPrefix \o Last4(cleaned)

MaskPAN(panNumber) ==
    IF NotText(panNumber) THEN Null
    ELSE LET cleaned == NoSpaces(ToUpperCase(panNumber))
         IN  IF Len(cleaned) < 4 THEN XXXX
             ELSE XXXXX \o Last4(cleaned)

MaskAadhaar(aadhaarNumber) ==
    IF NotText(aadhaarNumber) THEN Null
    ELSE LET cleaned == OnlyDigits(aadhaarNumber)
         IN  IF Len(cleaned) < 4 THEN AadhaarAll
             ELSE AadhaarPrefix \o Last4(cleaned)

MaskSalaryFieldMut(v) == v

\* if (masked.field !== undefined) masked.field = null
MaskSalaryField(v) == IF v # UndefinedNum THEN NullNum ELSE v

MaskEmployeeData(employee, isHr) ==
    IF isHr THEN employee
    ELSE [employee EXCEPT
            !.bank_account_number = MaskBankAccount(employee.bank_account_number),
            !.bank_ifsc = IF NotText(employee.bank_ifsc) THEN Null ELSE XXXX,
            !.bank_name = IF NotText(employee.bank_name) THEN Null ELSE Stars4,
            !.pan_number = MaskPAN(employee.pan_number),
            !.aadhaar_number = MaskAadhaar(employee.aadhaar_number),
            !.ctc = MaskSalaryField(employee.ctc),
            !.basic_salary = MaskSalaryField(employee.basic_salary),
            !.gross_salary = MaskSalaryField(employee.gross_salary),
            !.net_salary = MaskSalaryField(employee.net_salary)]

\* employees.map(emp => maskEmployeeData(emp, isHR))
MaskEmployeeList(employees, isHr) == {MaskEmployeeData(e, isHr) : e \in employees}

----------------------------------------------------------------------------
(* Callers as requireAuthWithTenant, isHR and the capability layer see     *)
(* them: profiles.tenant_id and email, user_roles, capabilities.           *)

PAYROLL_RUN == "PAYROLL_RUN"

PAYROLL_READ_TOTALS == "PAYROLL_READ_TOTALS"

LEAVE_REQUEST_OWN == "LEAVE_REQUEST_OWN"

Caller(id, tenant, email, roles, caps) ==
    [id |-> id, tenant_id |-> tenant, email |-> email, roles |-> roles, caps |-> caps]

Callers ==
    { Caller("uHrA", "tA", "hr@a", {"hr"}, {PAYROLL_RUN, PAYROLL_READ_TOTALS}),
      Caller("uDirA", "tA", "dir@a", {"director"}, {PAYROLL_READ_TOTALS}),
      Caller("uRunA", "tA", "run@a", {"payroll"}, {PAYROLL_RUN}),
      Caller("uE1A", "tA", "e1", {"employee"}, {LEAVE_REQUEST_OWN}),
      Caller("uE2A", "tA", "e2", {"employee"}, {LEAVE_REQUEST_OWN}),
      Caller("uOutA", "tA", "e4", {"employee"}, {LEAVE_REQUEST_OWN}),
      Caller("uHrB", "tB", "hr@b", {"admin"}, {PAYROLL_RUN, PAYROLL_READ_TOTALS}),
      Caller("uE1B", "tB", "e1", {"employee"}, {LEAVE_REQUEST_OWN}) }

\* roles.rows.some(r => ['hr', 'admin'].includes(r.role))
IsHR(c) == c.roles \cap {"hr", "admin"} # {}

\* hasCapability(userId, capability) and the test of requireCapability
HasCapability(c, cap) == cap \in c.caps

----------------------------------------------------------------------------
(* payroll.employees, payroll.compensation_structures, payroll.payroll_items *)

Bank1 == <<"1", "2", "-", "3", "4", "5", "6">>

Bank3 == <<"1", "2", "3">>

Ifsc1 == <<"a", "b", "1">>

BankName1 == <<"a", " ", "b">>

Pan1 == <<"a", "b", " ", "c", "1", "2">>

PanShort == <<"a", "b">>

Aadhaar1 == <<"1", "2", "3", "4", " ", "5", "6", "7", "8">>

EmployeeRow(id, tenant, code, email, status, joined, bank, ifsc, bname, pan, aadhaar) ==
    [id |-> id, tenant_id |-> tenant, employee_code |-> code, email |-> email,
     status |-> status,
     date_of_joining |-> joined,
     bank_account_number |-> bank, bank_ifsc |-> ifsc, bank_name |-> bname,
     pan_number |-> pan, aadhaar_number |-> aadhaar,
     ctc |-> UndefinedNum, basic_salary |-> UndefinedNum,
     gross_salary |-> UndefinedNum, net_salary |-> UndefinedNum]

Employees ==
    { EmployeeRow("E1", "tA", "C1", "e1", "active", <<2023, 1, 1>>,
                  Bank1, Ifsc1, BankName1, Pan1, Aadhaar1),
      EmployeeRow("E2", "tA", "C2", "e2", "active", <<2023, 6, 1>>,
                  Null, Null, Null, PanShort, Null),
      EmployeeRow("E3", "tB", "C1", "e1", "active", <<2024, 3, 1>>,
                  Bank3, Ifsc1, BankName1, Pan1, Null),
      EmployeeRow("E4", "tB", "C4", "e4", "inactive", <<2023, 1, 1>>,
                  Null, Null, Null, Null, Null) }

EmployeeIds == {e.id : e \in Employees}

\* an id no employee row has
NoEmployee == "E0"

CompRow(tenant, employee, from, ctc, basic, hra, sa) ==
    [tenant_id |-> tenant, employee_id |-> employee, effective_from |-> from, ctc |-> ctc,
     basic_salary |-> basic, hra |-> hra, special_allowance |-> sa]

ItemRow(id, tenant, employee, cycle, gross, net) ==
    [id |-> id, tenant_id |-> tenant, employee_id |-> employee, payroll_cycle |-> cycle,
     gross_salary |-> gross, net_salary |-> net]

Items ==
    { ItemRow("P1", "tA", "E1", <<2024, 12>>, 50000, 45000),
      ItemRow("P2", "tA", "E2", <<2024, 12>>, 30000, 28000),
      ItemRow("P3", "tB", "E3", <<2024, 12>>, 70000, 60000) }

ItemIds == {i.id : i \in Items}

NoItem == "P0"

Store(employees, comps, items, leaves, attendance) ==
    [employees |-> employees, comps |-> comps, items |-> items,
     leaves |-> leaves, attendance |-> attendance]

EmptyStore == Store({}, {}, {}, {}, {})

AccResponse(op, code, error, body) == [op |-> op, code |-> code, error |-> error, body |-> body]

NoAccResp == AccResponse("none", 0, "-", {})

\* dates are <<year, month>>; a <= b
DateLeq(a, b) == a[1] * 12 + a[2] <= b[1] * 12 + b[2]

\* the compensation row of an employee in force on a date: the latest
\* effective_from not after it
InForce(comps, eid, date) ==
    { cs \in comps :
        /\ cs.employee_id = eid
        /\ DateLeq(cs.effective_from, date)
        /\ ~\E cs2 \in comps :
              /\ cs2.employee_id = eid
              /\ ~DateLeq(cs2.effective_from, cs.effective_from)
              /\ DateLeq(cs2.effective_from, date) }

SalaryDetail(e, basic, hra, sa) ==
    [employee_id |-> e.id, email |-> e.email, basic_salary |-> basic, hra |-> hra,
     special_allowance |-> sa,
     gross_salary |-> IF basic = NullNum THEN NullNum ELSE basic + hra + sa,
     bank_account_number |-> e.bank_account_number, bank_ifsc |-> e.bank_ifsc,
     bank_name |-> e.bank_name, pan_number |-> e.pan_number]

\* payroll.get_employee_salary_details(p_employee_id, p_tenant_id)
GetEmployeeSalaryDetails(eid, tenant) ==
    UNION { IF InForce(store.comps, e.id, now) = {}
            THEN {SalaryDetail(e, NullNum, NullNum, NullNum)}
            ELSE {SalaryDetail(e, cs.basic_salary, cs.hra, cs.special_allowance) :
                     cs \in InForce(store.comps, e.id, now)}
          : e \in {e \in store.employees : e.id = eid /\ e.tenant_id = tenant} }

Forbidden(op) == AccResponse(op, 403, "Forbidden", {})

\* GET /employees
GetEmployees(c) ==
    /\ LET rows == {e \in store.employees : e.tenant_id = c.tenant_id}
       IN  accResp' = AccResponse("employees", 200, "-",
                                  IF IsHR(c) THEN rows ELSE MaskEmployeeList(rows, FALSE))
    /\ UNCHANGED <<cycleVars, userVars, store, rec>>
    /\ audited' = {}

\* GET /employees/:employeeId/compensation: the route registered first
GetCompensation(c, eid) ==
    /\ UNCHANGED <<cycleVars, userVars, store, rec>>
    /\ IF ~HasCapability(c, PAYROLL_RUN)
       THEN accResp' = Forbidden("compensation") /\ audited' = {}
       ELSE LET rows == GetEmployeeSalaryDetails(eid, c.tenant_id)
            IN  IF rows = {}
                THEN /\ accResp' = AccResponse("compensation", 404, "Employee not found", {})
                     /\ audited' = {}
                ELSE \E r \in rows, outcome \in AuditOutcomes :
                       /\ audited' = AuditPayroll(
                              AuditEntry(c.tenant_id, "payroll_salary_viewed",
                                         "employee", eid), outcome)
                       /\ accResp' = IF Throws(outcome)
                                     THEN AccResponse("compensation", 500,
                                                      "Failed to fetch compensation", {})
                                     ELSE AccResponse("compensation", 200, "-", {r})

OwnsByEmailMut(c, eid) == TRUE

\* SELECT id FROM payroll.employees WHERE id = $1 AND email = $2
OwnsByEmail(c, eid) == \E e \in store.employees : e.id = eid /\ e.email = c.email

\* the compensation rows the own-data query selects
OwnCompensationRows(eid, tenant) ==
    { cs \in InForce({x \in store.comps : x.tenant_id = tenant}, eid, now) :
        \E e \in store.employees : e.id = eid }

\* GET /employees/:employeeId/compensation: the route registered second, as
\* the set of responses it can send
CompensationOwnHandler(c, eid) ==
    IF ~HasCapability(c, PAYROLL_RUN) /\ ~IsHR(c) /\ ~OwnsByEmail(c, eid)
    THEN {AccResponse("compensation", 403, "Access denied", {})}
    ELSE LET rows == IF IsHR(c) THEN GetEmployeeSalaryDetails(eid, c.tenant_id)
                     ELSE OwnCompensationRows(eid, c.tenant_id)
         IN  IF rows = {}
             THEN {AccResponse("compensation", 404, "Compensation not found", {})}
             ELSE {AccResponse("compensation", 200, "-", {r}) : r \in rows}

MaxEmployees == 5

\* ids of payroll.employees rows in the order gen_random_uuid() hands them out
EmployeeIdSeq == <<"E1", "E2", "E3", "E4", "E5", "E6", "E7">>

\* request bodies of POST /employees: a new code, a code tenant tA and
\* tenant tB already use, no code
EmployeeBodies ==
    { [employee_code |-> code, email |-> "e5", date_of_joining |-> <<2024, 6, 1>>] :
        code \in {"C5", "C1", ""} }

\* POST /employees
PostEmployee(c, body) ==
    /\ UNCHANGED <<cycleVars, userVars, rec>>
    /\ audited' = {}
    /\ IF ~HasCapability(c, PAYROLL_RUN)
       THEN accResp' = Forbidden("employee_create") /\ UNCHANGED store
       ELSE IF body.employee_code = ""
       THEN /\ accResp' = AccResponse("employee_create", 400,
                  "employee_code, full_name, email, and date_of_joining are required", {})
            /\ UNCHANGED store
       ELSE IF \E e \in store.employees :
                  e.tenant_id = c.tenant_id /\ e.employee_code = body.employee_code
       THEN /\ accResp' = AccResponse("employee_create", 409,
                  "An employee with this code or email already exists.", {})
            /\ UNCHANGED store
       ELSE LET row == EmployeeRow(EmployeeIdSeq[Cardinality(store.employees) + 1],
                                   c.tenant_id, body.employee_code, body.email, "active",
                                   body.date_of_joining, Null, Null, Null, Null, Null)
            IN  /\ Cardinality(store.employees) < MaxEmployees
                /\ store' = [store EXCEPT !.employees = @ \cup {row}]
                /\ accResp' = AccResponse("employee_create", 201, "-", {row})

MaxComps == 2

CompBodies ==
    { [effective_from |-> <<2024, 6, 1>>, ctc |-> 50000, basic_salary |-> 20000, hra |-> 8000,
       special_allowance |-> 2000],
      [effective_from |-> <<2024, 6, 1>>, ctc |-> 0, basic_salary |-> 0, hra |-> 0,
       special_allowance |-> 0] }

\* POST /employees/:employeeId/compensation
PostCompensation(c, eid, body) ==
    /\ UNCHANGED <<cycleVars, userVars, rec>>
    /\ audited' = {}
    /\ IF ~HasCapability(c, PAYROLL_RUN)
       THEN accResp' = Forbidden("compensation_create") /\ UNCHANGED store
       ELSE IF body.ctc = 0
       THEN /\ accResp' = AccResponse("compensation_create", 400,
                                      "effective_from and ctc are required", {})
            /\ UNCHANGED store
       ELSE IF ~\E e \in store.employees : e.id = eid
       THEN /\ accResp' = AccResponse("compensation_create", 500,
                                      "Failed to create compensation", {})
            /\ UNCHANGED store
       ELSE LET row == CompRow(c.tenant_id, eid, body.effective_from, body.ctc,
                               body.basic_salary, body.hra, body.special_allowance)
            IN  /\ Cardinality(store.comps \cup {row}) <= MaxComps
                /\ store' = [store EXCEPT !.comps = @ \cup {row}]
                /\ accResp' = AccResponse("compensation_create", 201, "-", {row})

\* SELECT id FROM payroll.employees WHERE tenant_id = $1 AND email = $2 LIMIT 1
EmployeeIdsOfMut(tenant, email) == {e.id : e \in {x \in store.employees : x.email = email}}

EmployeeIdsOf(tenant, email) ==
    {e.id : e \in {x \in store.employees : x.tenant_id = tenant /\ x.email = email}}

\* SELECT * FROM payroll.get_own_payslip(...) FROM payroll.payroll_items pi ...:
\* a statement with two FROM clauses, which the server refuses with a syntax
\* error (SQLSTATE 42601) before it runs anything
OwnPayslipStatement == "42601"

\* GET /payslips
GetPayslips(c) ==
    /\ UNCHANGED <<cycleVars, userVars, store, rec>>
    /\ IF EmployeeIdsOf(c.tenant_id, c.email) = {}
       THEN accResp' = AccResponse("payslips", 200, "-", {}) /\ audited' = {}
       ELSE \E employeeId \in EmployeeIdsOf(c.tenant_id, c.email) :
              IF OwnPayslipStatement # "ok"
              THEN /\ accResp' = AccResponse("payslips", 500, "Failed to fetch payslips", {})
                   /\ audited' = {}
              ELSE \E outcome \in AuditOutcomes :
                     /\ audited' = AuditPayroll(
                            AuditEntry(c.tenant_id, "payroll_payslip_viewed",
                                       "employee", employeeId), outcome)
                     /\ accResp' =
                          IF Throws(outcome)
                          THEN AccResponse("payslips", 500, "Failed to fetch payslips", {})
                          ELSE AccResponse("payslips", 200, "-",
                                  {i \in store.items :
                                      i.employee_id = employeeId /\ i.tenant_id = c.tenant_id})

\* isEmployee && payslip.employee_id !== employeeId && !isUserHR
PdfRefused(isEmployee, owns, isUserHR) == isEmployee /\ ~owns /\ ~isUserHR

\* GET /payslips/:payslipId/pdf.  The document is piped into the response
\* and ended before auditPayroll is called: a rejected audit write finds the
\* response already sent.
GetPayslipPdf(c, payslipId) ==
    /\ UNCHANGED <<cycleVars, userVars, store, rec>>
    /\ LET found == {i \in store.items : i.id = payslipId}
           mine == EmployeeIdsOf(c.tenant_id, c.email)
       IN  IF found = {}
           THEN accResp' = AccResponse("pdf", 404, "Payslip not found", {})
           ELSE \E i \in found :
                  IF i.tenant_id # c.tenant_id
                  THEN accResp' = AccResponse("pdf", 403, "Access denied", {})
                  ELSE IF mine = {}
                  THEN IF PdfRefused(FALSE, FALSE, IsHR(c))
                       THEN accResp' = AccResponse("pdf", 403,
                                          "You can only download your own payslips", {})
                       ELSE accResp' = AccResponse("pdf", 200, "-", {i})
                  ELSE \E employeeId \in mine :
                         IF PdfRefused(TRUE, i.employee_id = employeeId, IsHR(c))
                         THEN accResp' = AccResponse("pdf", 403,
                                            "You can only download your own payslips", {})
                         ELSE accResp' = AccResponse("pdf", 200, "-", {i})
    /\ \E outcome \in AuditOutcomes :
          audited' = IF accResp'.code = 200
                     THEN AuditPayroll(AuditEntry(c.tenant_id, "payroll_payslip_viewed",
                                                  "payslip", payslipId), outcome)
                     ELSE {}

RECURSIVE SumCtc(_)
SumCtc(rows) ==
    IF rows = {} THEN 0
    ELSE LET r == CHOOSE r \in rows : TRUE IN r.ctc + SumCtc(rows \ {r})

\* AVG(...)::DECIMAL, rounded half up; 0 over no row (COALESCE)
Average(sum, n) == IF n = 0 THEN 0 ELSE (2 * sum + n) \div (2 * n)

\* the employee rows joined with their compensation rows in force, over which
\* payroll.get_payroll_aggregates computes its overall row
AggregateJoin(tenant) ==
    UNION { {[employee_id |-> e.id, tenant_id |-> cs.tenant_id, ctc |-> cs.ctc] :
                cs \in InForce(store.comps, e.id, now)}
          : e \in {x \in store.employees : x.tenant_id = tenant /\ x.status = "active"} }

\* total_amount of a cycle row: create requests send no totalCompensation
TotalAmountOf(id) == 0

RECURSIVE SumAmount(_)
SumAmount(ids) ==
    IF ids = {} THEN 0
    ELSE LET i == CHOOSE i \in ids : TRUE IN TotalAmountOf(i) + SumAmount(ids \ {i})

CyclesOf(tenant, statuses) ==
    {id \in RowIds(cycles) : TenantOf(id) = tenant /\ StatusOf(cycles, id) \in statuses}

StatsBodyMut(tenant) ==
    [totalEmployees |-> 0, monthlyPayroll |-> 0, pendingApprovals |-> 0, activeCycles |-> 0,
     totalNetPayable |-> 0, completedCycles |-> 0, totalAnnualPayroll |-> 0,
     averageSalary |-> 0, net_salary |-> 0]

\* the stats object of GET /stats
StatsBody(tenant) ==
    LET joined == AggregateJoin(tenant)
    IN  [totalEmployees |->
            Cardinality({e \in store.employees : e.tenant_id = tenant /\ e.status = "active"}),
         monthlyPayroll |-> SumCtc(joined),
         pendingApprovals |-> Cardinality(CyclesOf(tenant, {"pending_approval"})),
         activeCycles |-> Cardinality(CyclesOf(tenant, {"draft"})),
         totalNetPayable |-> SumCtc(joined),
         completedCycles |-> Cardinality(CyclesOf(tenant, {"completed"})),
         totalAnnualPayroll |->
            SumAmount({id \in CyclesOf(tenant, {"completed", "approved"}) : YearOf(id) = now[1]}),
         averageSalary |-> Average(SumCtc(joined), Cardinality(joined))]

\* GET /stats
GetStats(c) ==
    /\ UNCHANGED <<cycleVars, userVars, store, rec>>
    /\ IF ~HasCapability(c, PAYROLL_READ_TOTALS)
       THEN accResp' = Forbidden("stats") /\ audited' = {}
       ELSE \E outcome \in AuditOutcomes :
              /\ audited' = AuditPayroll(
                     AuditEntry(c.tenant_id, "payroll_aggregate_viewed",
                                "dashboard", NULL), outcome)
              /\ accResp' = IF Throws(outcome)
                            THEN AccResponse("stats", 500, "Failed to fetch stats", {})
                            ELSE AccResponse("stats", 200, "-", {StatsBody(c.tenant_id)})

\* maskEmployeeData(employee, false) on an employee object
MaskEmployee ==
    /\ rec' = MaskEmployeeData(rec, FALSE)
    /\ UNCHANGED <<cycleVars, userVars, store, accResp>>
    /\ audited' = {}

\* maskEmployeeData(employee, true)
MaskEmployeeForHR ==
    /\ rec' = MaskEmployeeData(rec, TRUE)
    /\ UNCHANGED <<cycleVars, userVars, store, accResp>>
    /\ audited' = {}

----------------------------------------------------------------------------
(* Specification of the payroll-cycle routes *)

\* the table before the first request: empty, or one row in any status
InitCycles ==
    /\ cycles \in {EmptyTable} \cup
          {[EmptyTable EXCEPT ![key] = <<s>>] : key \in Keys, s \in Statuses}
    /\ now = FirstNow
    /\ flight = {}
    /\ resp = NoResp

\* the user side at rest
IdleUsers ==
    /\ users = <<>>
    /\ txs = [p \in Procs |-> IdleTx]
    /\ ssoResp = NoSsoResp
    /\ pinFlight = {}
    /\ pinResp = NoPinResp

\* no stored payroll data, no response, no object under masking
NoRec == EmployeeRow("-", "-", "-", "-", "-", <<0, 0, 0>>, Null, Null, Null, Null, Null)

IdleData ==
    /\ store = EmptyStore
    /\ accResp = NoAccResp
    /\ rec = NoRec
    /\ audited = {}

Init == InitCycles /\ IdleUsers /\ IdleData

Next ==
    \/ \E t \in Tenants, b \in CreateBodies : CreateCycle(t, b)
    \/ \E t \in Tenants, cid \in RowIds(cycles) \cup {NoSuchId} : SubmitCycle(t, cid)
    \/ \E t \in Tenants, cid \in RowIds(cycles) \cup {NoSuchId} : ApproveCycle(t, cid)
    \/ \E t \in Tenants, cid \in RowIds(cycles) \cup {NoSuchId} : RejectCycle(t, cid)
    \/ \E t \in Tenants, cid \in RowIds(cycles) \cup {NoSuchId} : ProcessRead(t, cid)
    \/ \E f \in flight : ProcessWrite(f)
    \/ \E t \in Tenants : ListCycles(t)
    \/ Tick

Spec == Init /\ [][Next]_vars

----------------------------------------------------------------------------
(* Specification of concurrent GET /sso requests *)

IdleCycles ==
    /\ cycles = EmptyTable
    /\ now = FirstNow
    /\ flight = {}
    /\ resp = NoResp

\* the users table before the first request: sign-up rows, none linked
InitSso ==
    /\ IdleCycles
    /\ IdleData
    /\ users \in {<<>>, <<SignupRow(<<"a">>)>>, <<SignupRow(<<"b">>)>>,
                  <<SignupRow(<<"a">>), SignupRow(<<"b">>)>>}
    /\ txs = [p \in Procs |-> IdleTx]
    /\ ssoResp = NoSsoResp
    /\ pinFlight = {}
    /\ pinResp = NoPinResp

NextSso ==
    \/ \E p \in Procs, tok \in Tokens : SsoBegin(p, tok)
    \/ \E p \in Procs : SelectByHrId(p)
    \/ \E p \in Procs : UpdateByHrId(p)
    \/ \E p \in Procs : SelectByEmail(p)
    \/ \E p \in Procs : UpdateByEmail(p)
    \/ \E p \in Procs : Reselect(p)
    \/ \E p \in Procs : InsertUser(p)
    \/ \E p \in Procs : CommitUser(p)
    \/ \E p \in Procs : StatementFails(p)

SpecSso == InitSso /\ [][NextSso]_vars

----------------------------------------------------------------------------
(* Specification of GET /sso requests served one after the other *)

NextSsoSeq ==
    \/ \E tok \in Tokens : SsoBegin(1, tok)
    \/ SelectByHrId(1)
    \/ UpdateByHrId(1)
    \/ SelectByEmail(1)
    \/ UpdateByEmail(1)
    \/ Reselect(1)
    \/ InsertUser(1)
    \/ CommitUser(1)
    \/ StatementFails(1)

SpecSsoSeq == InitSso /\ [][NextSsoSeq]_vars

----------------------------------------------------------------------------
(* Specification of the PIN routes *)

\* users provisioned through GET /sso
ProvisionedA == UserRow(<<"a">>, "h1", "o1", "payroll_admin", <<"A", "n">>, <<"L">>, NoPin)

ProvisionedB == UserRow(<<"b">>, "h2", "o1", "payroll_employee", <<"B">>, <<>>, NoPin)

InitPin ==
    /\ IdleCycles
    /\ IdleData
    /\ users \in { <<ProvisionedA, ProvisionedB>>,
                   <<[ProvisionedA EXCEPT !.pin_hash = Hash(Pin1, "s1")], ProvisionedB>> }
    /\ txs = [p \in Procs |-> IdleTx]
    /\ ssoResp = NoSsoResp
    /\ pinFlight = {}
    /\ pinResp = NoPinResp

NextPin ==
    \/ \E email \in PinEmails, pin \in Pins : LoginPin(email, pin)
    \/ \E email \in PinEmails, pin \in Pins : SetupPinRead(email, pin)
    \/ \E f \in pinFlight, salt \in Salts : SetupPinWrite(f, salt)

SpecPin == InitPin /\ [][NextPin]_vars

----------------------------------------------------------------------------
(* Specification of maskEmployeeData and GET /employees *)

\* employee objects handed to maskEmployeeData: identifiers of four and
\* more characters, shorter ones, empty, null and absent ones; salary fields
\* set, null and absent
MaskInputs ==
    { [EmployeeRow("E9", "tA", "C9", "e9", "active", <<2023, 1, 1>>,
                   bank, ifsc, bname, pan, aadhaar)
         EXCEPT !.ctc = ctc, !.basic_salary = basic, !.gross_salary = gross, !.net_salary = net] :
        bank \in {Bank1, Bank3, Undefined},
        ifsc \in {Ifsc1, Null},
        bname \in {BankName1, <<>>},
        pan \in {Pan1, PanShort, <<"a", "1", "b", "2">>, Null},
        aadhaar \in {Aadhaar1, Null},
        ctc \in {600000, NullNum, UndefinedNum},
        basic \in {20000, UndefinedNum},
        gross \in {30000},
        net \in {NullNum} }

InitMask ==
    /\ IdleCycles
    /\ IdleUsers
    /\ store = Store(Employees, {}, {}, {}, {})
    /\ accResp = NoAccResp
    /\ rec \in MaskInputs
    /\ audited = {}

NextMask ==
    \/ MaskEmployee
    \/ MaskEmployeeForHR
    \/ \E c \in Callers : GetEmployees(c)

SpecMask == InitMask /\ [][NextMask]_vars

----------------------------------------------------------------------------
(* Specification of the employee, compensation, payslip and stats routes *)

\* employee ids in the path of POST compensation requests
PostTargets == {"E1", "E3", NoEmployee}

InitAccess ==
    /\ cycles \in { EmptyTable,
                    [EmptyTable EXCEPT ![<<"tA", 2, 2024>>] = <<"completed">>,
                                       ![<<"tB", 1, 2025>>] = <<"draft">>] }
    /\ now = FirstNow
    /\ flight = {}
    /\ resp = NoResp
    /\ IdleUsers
    /\ \E items \in SUBSET Items : store = Store(Employees, {}, items, {}, {})
    /\ accResp = NoAccResp
    /\ rec = NoRec
    /\ audited = {}

NextAccess ==
    \/ \E c \in Callers : GetEmployees(c)
    \/ \E c \in Callers, eid \in EmployeeIds \cup {NoEmployee} : GetCompensation(c, eid)
    \/ \E c \in Callers, eid \in PostTargets, body \in CompBodies :
          PostCompensation(c, eid, body)
    \/ \E c \in Callers : GetPayslips(c)
    \/ \E c \in Callers, pid \in ItemIds \cup {NoItem} : GetPayslipPdf(c, pid)
    \/ \E c \in Callers : GetStats(c)

SpecAccess == InitAccess /\ [][NextAccess]_vars

----------------------------------------------------------------------------
(* Properties of the payroll-cycle routes *)

CycleTargets == RowIds(cycles) \cup {NoSuchId}

\* the rows whose status a step changes, and how
ChangedIds == {id \in RowIds(cycles) : StatusOf(cycles', id) # StatusOf(cycles, id)}

Transition(id) == <<StatusOf(cycles, id), StatusOf(cycles', id)>>

\* C1: every status change made by submit, approve, reject and process is
\* draft->pending_approval (submit), pending_approval->approved (approve),
\* approved->draft (reject) or approved->processing (process); in particular
\* none of them moves a cycle out of completed or failed.
C1_OnlyLifecycleTransitions ==
    [][ cycles' # cycles =>
        /\ \A t \in Tenants, cid \in CycleTargets :
              /\ SubmitCycle(t, cid) =>
                    \A id \in ChangedIds : Transition(id) = <<"draft", "pending_approval">>
              /\ ApproveCycle(t, cid) =>
                    \A id \in ChangedIds : Transition(id) = <<"pending_approval", "approved">>
              /\ RejectCycle(t, cid) =>
                    \A id \in ChangedIds : Transition(id) = <<"approved", "draft">>
        /\ \A f \in flight :
              ProcessWrite(f) =>
                  \A id \in ChangedIds : Transition(id) = <<"approved", "processing">>
      ]_vars

\* C2: the process action lets a request through to its UPDATE only when the
\* cycle it read is approved; a row becomes processing only through such a
\* request; on any other status the answer is 400 naming that status and the
\* table is unchanged.
C2_ProcessOnlyApproved ==
    [][ /\ (resp'.op = "process" \/ flight' # flight) =>
              \A t \in Tenants, cid \in RowIds(cycles) :
                  (ProcessRead(t, cid) /\ TenantOf(cid) = t) =>
                      IF StatusOf(cycles, cid) = "approved"
                      THEN /\ cycles' = cycles
                           /\ [tenant |-> t, cid |-> cid] \in flight'
                      ELSE /\ resp' = Response("process", 400, StatusOf(cycles, cid))
                           /\ cycles' = cycles
                           /\ flight' = flight
        /\ \A f \in flight' \ flight : StatusOf(cycles, f.cid) = "approved"
        /\ cycles' # cycles =>
              \A id \in ChangedIds :
                  StatusOf(cycles', id) = "processing" =>
                      [tenant |-> TenantOf(id), cid |-> id] \in flight
      ]_vars

C2_Witness ==
    /\ resp = Response("process", 400, "completed")
    /\ \E id \in RowIds(cycles) : StatusOf(cycles, id) = "processing"

\* C3: at most one cycle row per (tenant_id, month, year), and a create
\* request for a key that already has a row answers 409 and inserts nothing.
UniquePerKey == \A key \in Keys : Len(cycles[key]) <= 1

BeforeNow(id) == YearOf(id) * 12 + MonthOf(id) < now[1] * 12 + now[2]

C4_AutoCompletePast ==
    [][ resp'.op = "list" =>
            \A t \in Tenants :
                ListCycles(t) =>
                    /\ RowIds(cycles') = RowIds(cycles)
                    /\ \A id \in RowIds(cycles) :
                          TenantOf(id) = t =>
                              IF BeforeNow(id)
                              THEN StatusOf(cycles', id) =
                                      (IF StatusOf(cycles, id) = "failed" THEN "failed" ELSE "completed")
                              ELSE StatusOf(cycles', id) = StatusOf(cycles, id)
      ]_vars

C4_Witness ==
    /\ resp.op = "list"
    /\ now = LastNow
    /\ \E a \in RowIds(cycles), b \in RowIds(cycles) :
          /\ TenantOf(a) = TenantOf(b)
          /\ YearOf(a) = now[1] /\ StatusOf(cycles, a) = "completed"
          /\ YearOf(b) < now[1] /\ StatusOf(cycles, b) = "failed"

----------------------------------------------------------------------------
(* GET /sso and upsertPayrollUser *)

HrIds == {"h1", "h2"}

RowsOf(table, h) == {i \in DOMAIN table : table[i].hr_user_id = h}

AllIdle == \A p \in Procs : txs[p].pc = "idle"

\* C5: once all concurrent upsertPayrollUser calls have finished, at most one
\* user row carries any one hr_user_id.
C5_NoDuplicateHrUserId ==
    AllIdle => \A h \in HrIds : Cardinality(RowsOf(users, h)) <= 1

\* C6: with calls served one after the other, the users table changes only
\* when a call commits; after the commit exactly one row carries the call's
\* hr_user_id, and if a row carried it before (an earlier call for the same
\* external id), the number of rows is the same, it is the same row, only its
\* email, org_id, payroll_role and names may differ, and no other row changed.
C6_SequentialUpsertIdempotent ==
    [][ users' # users =>
            \E p \in Procs :
                /\ txs[p].pc = "commit"
                /\ ssoResp'.code = 200
                /\ LET h == txs[p].hrUser.hrUserId
                   IN  /\ Cardinality(RowsOf(users', h)) = 1
                       /\ RowsOf(users, h) # {} =>
                             /\ Len(users') = Len(users)
                             /\ RowsOf(users', h) = RowsOf(users, h)
                             /\ \A i \in DOMAIN users :
                                   IF i \in RowsOf(users, h)
                                   THEN /\ users'[i].hr_user_id = users[i].hr_user_id
                                        /\ users'[i].pin_hash = users[i].pin_hash
                                   ELSE users'[i] = users[i]
      ]_vars

\* a second call for an external id is about to commit changed fields of the
\* row the first call left
C6_Witness ==
    \E i \in DOMAIN users :
        /\ txs[1].pc = "commit"
        /\ i \in DOMAIN txs[1].upd
        /\ users[i].hr_user_id = txs[1].hrUser.hrUserId
        /\ txs[1].upd[i].email # users[i].email
        /\ txs[1].upd[i].payroll_role # users[i].payroll_role

ProvisionFailed == SsoResponse(500, "Failed to provision user", FALSE, 0, FALSE)

\* C7: a call of upsertPayrollUser that ends without committing leaves the
\* users table as it is, and GET /sso answers 500 without a session token;
\* the table changes only by the commit of a call that is answered 200.
C7_RollbackRestoresUsers ==
    [][ /\ \A p \in Procs :
              (txs[p].pc # "idle" /\ txs'[p].pc = "idle") =>
                  \/ txs[p].pc = "commit" /\ ssoResp'.code = 200 /\ users' = View(p)
                  \/ users' = users /\ ssoResp' = ProvisionFailed
        /\ users' # users => \E p \in Procs : txs[p].pc = "commit" /\ ssoResp'.code = 200
      ]_vars

\* a call has been rolled back next to a row that an earlier call linked
C7_Witness ==
    /\ ssoResp = ProvisionFailed
    /\ AllIdle
    /\ \E i \in DOMAIN users : users[i].hr_user_id # NULL

Acceptable(tok) ==
    /\ tok.present
    /\ tok.sig = "ok"
    /\ tok.iss = "hr-app"
    /\ tok.aud = "payroll-app"
    /\ tok.exp # "past"
    /\ tok.sub # "" /\ tok.org_id # "" /\ tok.email # <<>>

----------------------------------------------------------------------------
(* The PIN routes *)

\* C9: a stored pin_hash is never replaced, whatever the interleaving of
\* setup-pin requests.
C9_StoredHashNeverReplaced ==
    [][ \A i \in DOMAIN users :
            users[i].pin_hash # NoPin => users'[i].pin_hash = users[i].pin_hash
      ]_vars

InvalidPin == PinResponse("login", 401, "Invalid PIN", FALSE, 0)

\* C10: login-pin issues a session token exactly when a user with the
\* lower-cased, trimmed email exists, has a pin_hash, and the 6-digit PIN is
\* the one hashed; a well-formed wrong PIN for a user with a PIN is answered
\* 401 'Invalid PIN' without a token; the users table is left alone.
C10_LoginPinTokenOnlyOnMatch ==
    [][ pinResp'.op = "login" =>
            \A email \in PinEmails, pin \in Pins :
                LoginPin(email, pin) =>
                    LET holders == {i \in DOMAIN users : users[i].email = NormalizeEmail(email)}
                    IN  /\ users' = users
                        /\ pinResp'.token <=>
                              \E i \in holders :
                                  /\ users[i].pin_hash # NoPin
                                  /\ PinFormatOk(pin)
                                  /\ users[i].pin_hash.pin = pin
                        /\ pinResp'.token => pinResp'.code = 200 /\ pinResp'.uid \in holders
                        /\ ( /\ PinFormatOk(pin)
                             /\ \E i \in holders :
                                   users[i].pin_hash # NoPin /\ users[i].pin_hash.pin # pin )
                              => pinResp' = InvalidPin
      ]_vars

\* a wrong PIN has been refused for a user whose PIN is set
C10_Witness ==
    /\ pinResp = InvalidPin
    /\ \E i \in DOMAIN users : users[i].pin_hash # NoPin

\* C11: two well-formed login-pin requests that both fail are answered with
\* the same status and body, whether the email is unknown, belongs to a user
\* without a PIN, or to a user whose PIN does not match.
C11_LoginFailuresIndistinguishable ==
    \A e1 \in PinEmails, e2 \in PinEmails, p1 \in Pins, p2 \in Pins :
        LET r1 == LoginPinResult(users, e1, p1)
            r2 == LoginPinResult(users, e2, p2)
        IN  ( /\ e1 # <<>> /\ e2 # <<>>
              /\ PinFormatOk(p1) /\ PinFormatOk(p2)
              /\ ~r1.token /\ ~r2.token )
                => r1 = r2

----------------------------------------------------------------------------
(* Masking *)

\* C17: masking a masked employee object changes nothing:
\* maskEmployeeData(maskEmployeeData(x, false), false) = maskEmployeeData(x, false).
C17_MaskingIdempotent ==
    MaskEmployeeData(MaskEmployeeData(rec, FALSE), FALSE) = MaskEmployeeData(rec, FALSE)

SalaryFields == {"ctc", "basic_salary", "gross_salary", "net_salary"}

\* C18: maskEmployeeData(x, false) has null in every salary field that x
\* carries, and every row GET /employees sends to a caller who is not HR is
\* the masking of a stored row of the caller's tenant, with no salary value.
C18_MaskingHidesSalary ==
    [][ /\ (rec' # rec /\ MaskEmployee) =>
              \A f \in SalaryFields :
                  /\ rec[f] # UndefinedNum => rec'[f] = NullNum
                  /\ rec[f] = UndefinedNum => rec'[f] = UndefinedNum
        /\ (accResp' # accResp /\ accResp'.op = "employees") =>
              \A c \in Callers :
                  (~IsHR(c) /\ GetEmployees(c)) =>
                      /\ \A r \in accResp'.body :
                            /\ \A f \in SalaryFields : r[f] \in {NullNum, UndefinedNum}
                            /\ \E e \in store.employees :
                                  /\ e.tenant_id = c.tenant_id
                                  /\ r = MaskEmployeeData(e, FALSE)
                      /\ \A e \in store.employees :
                            e.tenant_id = c.tenant_id =>
                                \/ e.bank_account_number = Null
                                \/ \A r \in accResp'.body :
                                      r.bank_account_number # e.bank_account_number
      ]_vars

\* an object whose salary fields were set has been masked, and a caller who
\* is not HR has been sent the employee list
C18_Witness ==
    /\ rec.id = "E9"
    /\ rec.ctc = NullNum /\ rec.basic_salary = NullNum
    /\ rec.bank_name = Stars4
    /\ accResp.op = "employees"
    /\ \E r \in accResp.body : r.id = "E1" /\ r.bank_ifsc = XXXX

----------------------------------------------------------------------------
(* Access to employee, compensation, payslip and aggregate data *)

NotHR(c) == c.roles \cap {"hr", "admin"} = {}

\* not HR, without the payroll-run capability, and not the holder of the
\* employee record's email
Stranger(c, eid) ==
    /\ NotHR(c)
    /\ PAYROLL_RUN \notin c.caps
    /\ ~\E e \in store.employees : e.id = eid /\ e.email = c.email

AccessDenied == AccResponse("compensation", 403, "Access denied", {})

\* C12: GET /employees/:employeeId/compensation by a caller who is not HR, has
\* no payroll-run capability and whose email does not own the employee
\* record is answered 403 with no compensation data, by the route as it is
\* dispatched and by the ownership-checked handler.
C12_CompensationDeniedToStrangers ==
    [][ (accResp' # accResp /\ accResp'.op = "compensation") =>
            \A c \in Callers, eid \in EmployeeIds \cup {NoEmployee} :
                (Stranger(c, eid) /\ GetCompensation(c, eid)) =>
                    /\ accResp'.code = 403 /\ accResp'.body = {}
                    /\ CompensationOwnHandler(c, eid) = {AccessDenied}
      ]_vars

\* a stranger has been refused the compensation of an employee who has some
C12_Witness ==
    /\ accResp = Forbidden("compensation")
    /\ \E cs \in store.comps : cs.employee_id = "E1" /\ cs.tenant_id = "tA"

\* the employees of the caller's tenant that carry the caller's email
OwnEmployeeIds(c) ==
    {e.id : e \in {x \in store.employees : x.tenant_id = c.tenant_id /\ x.email = c.email}}

\* C13: GET /payslips/:payslipId/pdf delivers a payslip to a caller who is not
\* HR only if the payslip belongs to the employee resolved from the caller's
\* email in the caller's tenant; any other such caller gets 403 and nothing.
C13_PayslipPdfOnlyToOwner ==
    [][ (accResp' # accResp /\ accResp'.op = "pdf") =>
            \A c \in Callers, pid \in ItemIds :
                (NotHR(c) /\ GetPayslipPdf(c, pid)) =>
                    IF \E i \in store.items : i.id = pid /\ i.employee_id \in OwnEmployeeIds(c)
                    THEN accResp'.code = 200
                    ELSE accResp'.body = {} /\ accResp'.code \in {403, 404}
      ]_vars

\* C14: every row of a GET /payslips response belongs to the employee resolved
\* from the caller's email in the caller's tenant, and a caller whose email
\* resolves to no employee there gets an empty list.
C14_PayslipsOnlyOwn ==
    [][ (accResp' # accResp /\ accResp'.op = "payslips") =>
            \A c \in Callers :
                GetPayslips(c) =>
                    /\ \A r \in accResp'.body :
                          r.employee_id \in OwnEmployeeIds(c) /\ r.tenant_id = c.tenant_id
                    /\ OwnEmployeeIds(c) = {} =>
                          accResp' = AccResponse("payslips", 200, "-", {})
      ]_vars

\* a caller without an employee record has been sent the empty list while
\* payroll items of the tenant are stored
C14_Witness ==
    /\ accResp = AccResponse("payslips", 200, "-", {})
    /\ \E i \in store.items : i.tenant_id = "tA"

StatsFields ==
    {"totalEmployees", "monthlyPayroll", "pendingApprovals", "activeCycles",
     "totalNetPayable", "completedCycles", "totalAnnualPayroll", "averageSalary"}

\* C15: the response of GET /stats to a caller with PAYROLL_READ_TOTALS who is
\* not HR is one object of tenant-wide counts, sums and averages, or an error
\* without a body: what it carries has exactly the aggregate fields, each a
\* number, and no per-employee row, net_salary or gross_salary.
C15_StatsOnlyAggregates ==
    [][ (accResp' # accResp /\ accResp'.op = "stats") =>
            \A c \in Callers :
                (NotHR(c) /\ PAYROLL_READ_TOTALS \in c.caps /\ GetStats(c)) =>
                    /\ accResp'.code \in {200, 500}
                    /\ Cardinality(accResp'.body) = IF accResp'.code = 200 THEN 1 ELSE 0
                    /\ \A r \in accResp'.body :
                          /\ DOMAIN r = StatsFields
                          /\ \A f \in StatsFields : r[f] \in Nat
                          /\ r.totalEmployees =
                                Cardinality({e \in store.employees :
                                                e.tenant_id = c.tenant_id /\ e.status = "active"})
      ]_vars

\* aggregates over stored compensation have been sent
C15_Witness ==
    /\ accResp.op = "stats" /\ accResp.code = 200
    /\ \E r \in accResp.body : r.totalEmployees = 2 /\ r.monthlyPayroll > 0 /\ r.averageSalary > 0

\* the salary details of an employee computed from rows of one tenant only
SalaryDetailsWithin(eid, tenant) ==
    LET comps == {cs \in store.comps : cs.tenant_id = tenant}
    IN  UNION { IF InForce(comps, e.id, now) = {}
                THEN {SalaryDetail(e, NullNum, NullNum, NullNum)}
                ELSE {SalaryDetail(e, cs.basic_salary, cs.hra, cs.special_allowance) :
                         cs \in InForce(comps, e.id, now)}
              : e \in {e \in store.employees : e.id = eid /\ e.tenant_id = tenant} }

\* C16: what a request of a user of tenant A returns is taken from rows of
\* tenant A only, and it changes no row of another tenant.
C16_TenantIsolation ==
    [][ accResp' # accResp =>
            \A c \in Callers :
                /\ GetEmployees(c) => \A r \in accResp'.body : r.tenant_id = c.tenant_id
                /\ GetPayslips(c) => \A r \in accResp'.body : r.tenant_id = c.tenant_id
                /\ \A pid \in ItemIds :
                      GetPayslipPdf(c, pid) => \A r \in accResp'.body : r.tenant_id = c.tenant_id
                /\ \A eid \in EmployeeIds :
                      GetCompensation(c, eid) =>
                          accResp'.body \subseteq SalaryDetailsWithin(eid, c.tenant_id)
                /\ \A eid \in PostTargets, body \in CompBodies :
                      PostCompensation(c, eid, body) =>
                          {x \in store'.comps : x.tenant_id # c.tenant_id}
                              = {x \in store.comps : x.tenant_id # c.tenant_id}
      ]_vars

----------------------------------------------------------------------------
(* JavaScript numbers: the finite non-negative IEEE-754 binary64 values.    *)
(* A value is m * 2^e with m an integer of exactly Precision bits; zero is  *)
(* m = 0.  Integers of any size are written as their digits to the base     *)
(* 2^LimbBits, lowest first, without leading zero digits.  Every operation  *)
(* computes its exact result and rounds it to nearest, ties to even.        *)

Precision == 53

LimbBits == 15

\* whole digits put below a dividend, so that the quotient keeps more than
\* Precision bits whatever the divisor (a divisor is less than one digit)
HeadroomLimbs == 5

RECURSIVE Pow2(_)
Pow2(n) == IF n = 0 THEN 1 ELSE 2 * Pow2(n - 1)

Base == Pow2(LimbBits)

Float(m, e) == [m |-> m, e |-> e]

Zero == Float(<<>>, 0)

RECURSIVE BigOf(_)
BigOf(n) == IF n = 0 THEN <<>> ELSE <<n % Base>> \o BigOf(n \div Base)

ZeroLimbs(k) == [i \in 1..k |-> 0]

RECURSIVE TrimTop(_)
TrimTop(a) ==
    IF a = <<>> \/ a[Len(a)] # 0 THEN a ELSE TrimTop(SubSeq(a, 1, Len(a) - 1))

LimbAt(a, i) == IF i <= Len(a) THEN a[i] ELSE 0

RECURSIVE AddFrom(_, _, _, _)
AddFrom(a, b, i, carry) ==
    IF i > Len(a) /\ i > Len(b) THEN BigOf(carry)
    ELSE LET t == LimbAt(a, i) + LimbAt(b, i) + carry
         IN  <<t % Base>> \o AddFrom(a, b, i + 1, t \div Base)

AddBig(a, b) == AddFrom(a, b, 1, 0)

RECURSIVE MulFrom(_, _, _, _)
MulFrom(a, k, i, carry) ==
    IF i > Len(a) THEN BigOf(carry)
    ELSE LET t == a[i] * k + carry
         IN  <<t % Base>> \o MulFrom(a, k, i + 1, t \div Base)

\* a times k, for 0 < k <= Base
MulSmall(a, k) == MulFrom(a, k, 1, 0)

\* long division of a by d, 0 < d <= Base, from the top digit down
RECURSIVE DivFrom(_, _, _, _)
DivFrom(a, d, i, r) ==
    IF i = 0 THEN [q |-> <<>>, r |-> r]
    ELSE LET t == r * Base + a[i]
             below == DivFrom(a, d, i - 1, t % d)
         IN  [q |-> below.q \o <<t \div d>>, r |-> below.r]

DivSmall(a, d) ==
    LET qr == DivFrom(a, d, Len(a), 0) IN [q |-> TrimTop(qr.q), r |-> qr.r]

\* a * 2^s
ShiftLeft(a, s) ==
    IF a = <<>> THEN a
    ELSE ZeroLimbs(s \div LimbBits) \o MulSmall(a, Pow2(s % LimbBits))

\* a \div 2^s, and whether anything was left over
ShiftRight(a, s) ==
    LET limbs == IF s \div LimbBits < Len(a) THEN s \div LimbBits ELSE Len(a)
        qr == DivSmall(SubSeq(a, limbs + 1, Len(a)), Pow2(s % LimbBits))
    IN  [q |-> qr.q, rest |-> qr.r # 0 \/ \E i \in 1..limbs : a[i] # 0]

\* the number of bits of a
BitLen(a) ==
    IF a = <<>> THEN 0
    ELSE (Len(a) - 1) * LimbBits
            + (CHOOSE k \in 1..LimbBits : Pow2(k - 1) <= a[Len(a)] /\ a[Len(a)] < Pow2(k))

IsOdd(a) == a # <<>> /\ a[1] % 2 = 1

\* a <= b
LeqBig(a, b) ==
    \/ Len(a) < Len(b)
    \/ /\ Len(a) = Len(b)
       /\ \/ a = b
          \/ \E i \in 1..Len(a) :
                /\ a[i] < b[i]
                /\ \A j \in (i + 1)..Len(a) : a[j] = b[j]

\* the binary64 value nearest to a * 2^e (plus a non-zero rest below the
\* lowest bit when sticky), ties to even
Round(a, e, sticky) ==
    LET k == BitLen(a) - Precision
    IN  IF a = <<>> THEN Zero
        ELSE IF k <= 0 THEN Float(ShiftLeft(a, 0 - k), e + k)
        ELSE LET withGuard == ShiftRight(a, k - 1)
                 kept == DivSmall(withGuard.q, 2).q
                 up == IsOdd(withGuard.q) /\ (sticky \/ withGuard.rest \/ IsOdd(kept))
                 m == IF up THEN AddBig(kept, <<1>>) ELSE kept
             IN  IF BitLen(m) > Precision
                 THEN Float(DivSmall(m, 2).q, e + k + 1)
                 ELSE Float(m, e + k)

\* a * 2^e / d, for 0 < d <= Base
Quotient(a, e, d) ==
    LET qr == DivSmall(ZeroLimbs(HeadroomLimbs) \o a, d)
    IN  Round(qr.q, e - HeadroomLimbs * LimbBits, qr.r # 0)

\* Number(text) of a DECIMAL(_, 2) column read as text: hundredths / 100
Number(hundredths) == Quotient(BigOf(hundredths), 0, 100)

\* x + y
FAdd(x, y) ==
    IF x = Zero THEN y
    ELSE IF y = Zero THEN x
    ELSE LET low == IF x.e < y.e THEN x.e ELSE y.e
         IN  Round(AddBig(ShiftLeft(x.m, x.e - low), ShiftLeft(y.m, y.e - low)), low, FALSE)

\* x / d, d a whole number
FDiv(x, d) == IF x = Zero THEN Zero ELSE Quotient(x.m, x.e, d)

\* x * (halves / 2)
FMulHalves(x, halves) ==
    IF x = Zero \/ halves = 0 THEN Zero ELSE Round(MulSmall(x.m, halves), x.e - 1, FALSE)

\* x * 0.75
FMulThreeQuarters(x) == IF x = Zero THEN Zero ELSE Round(MulSmall(x.m, 3), x.e - 2, FALSE)

\* x <= n, n a whole number
FLeq(x, n) ==
    \/ x = Zero
    \/ IF x.e >= 0
       THEN LeqBig(ShiftLeft(x.m, x.e), BigOf(n))
       ELSE LeqBig(x.m, ShiftLeft(BigOf(n), 0 - x.e))

----------------------------------------------------------------------------
(* Loss-of-pay days and the payroll preview.  Amounts are DECIMAL(_, 2)     *)
(* values carried as hundredths; day counts are carried in half days, so a  *)
(* leave of 2 days has days = 4; dates are <<year, month, day>>.            *)

LeapYear(y) == (y % 4 = 0 /\ y % 100 # 0) \/ y % 400 = 0

\* new Date(year, month, 0).getDate()
DaysInMonth(year, month) ==
    IF month = 2 THEN (IF LeapYear(year) THEN 29 ELSE 28)
    ELSE IF month \in {4, 6, 9, 11} THEN 30 ELSE 31

LeaveRow(id, tenant, employee, type, status, start, end, days) ==
    [id |-> id, tenant_id |-> tenant, employee_id |-> employee, leave_type |-> type,
     status |-> status, start_date |-> start, end_date |-> end, days |-> days]

AttendanceRow(id, tenant, employee, date, status) ==
    [id |-> id, tenant_id |-> tenant, employee_id |-> employee, date |-> date, status |-> status]

\* a <= b for dates
DayLeq(a, b) ==
    \/ a[1] < b[1]
    \/ a[1] = b[1] /\ a[2] < b[2]
    \/ a[1] = b[1] /\ a[2] = b[2] /\ a[3] <= b[3]

\* a date test that looks at the start date only
InMonthMut(l, year, month) == l.start_date[1] = year /\ l.start_date[2] = month

\* the WHERE clause on the dates of a leave request
InMonth(l, year, month) ==
    \/ l.start_date[1] = year /\ l.start_date[2] = month
    \/ l.end_date[1] = year /\ l.end_date[2] = month
    \/ DayLeq(l.start_date, <<year, month, 1>>) /\ DayLeq(<<year, month, 1>>, l.end_date)

\* SUM(CASE WHEN leave_type = 'loss_of_pay' THEN days ELSE 0 END)
RECURSIVE SumLopDays(_)
SumLopDays(rows) ==
    IF rows = {} THEN 0
    ELSE LET l == CHOOSE l \in rows : TRUE
         IN  (IF l.leave_type = "loss_of_pay" THEN l.days ELSE 0) + SumLopDays(rows \ {l})

LeaveLopDays(tenantId, employeeId, month, year) ==
    SumLopDays({l \in store.leaves :
                   /\ l.tenant_id = tenantId
                   /\ l.employee_id = employeeId
                   /\ l.status = "approved"
                   /\ InMonth(l, year, month)})

\* COUNT(*) of the attendance rows with status 'lop' in the month, in half days
AttendanceLopDays(tenantId, employeeId, month, year) ==
    2 * Cardinality({a \in store.attendance :
                        /\ a.tenant_id = tenantId
                        /\ a.employee_id = employeeId
                        /\ a.status = "lop"
                        /\ a.date[1] = year
                        /\ a.date[2] = month})

PaidDaysMut(totalWorkingDays, lopDays) == totalWorkingDays - lopDays

\* Math.max(0, totalWorkingDays - lopDays)
PaidDays(totalWorkingDays, lopDays) ==
    IF totalWorkingDays - lopDays > 0 THEN totalWorkingDays - lopDays ELSE 0

CalculateLopAndPaidDays(tenantId, employeeId, month, year) ==
    LET totalWorkingDays == 2 * DaysInMonth(year, month)
        lopDays == LeaveLopDays(tenantId, employeeId, month, year)
                      + AttendanceLopDays(tenantId, employeeId, month, year)
    IN  [lopDays |-> lopDays,
         paidDays |-> PaidDays(totalWorkingDays, lopDays),
         totalWorkingDays |-> totalWorkingDays]

\* Number(column) || 0
NumberOrZero(v) == IF v = NullNum THEN Zero ELSE Number(v)

EsiCeiling == 21000

\* adjustedGross <= 21000 ? (adjustedGross * 0.75) / 100 : 0
EsiDeduction(adjustedGross) ==
    IF FLeq(adjustedGross, EsiCeiling)
    THEN FDiv(FMulThreeQuarters(adjustedGross), 100)
    ELSE Zero

\* SELECT * FROM payroll.compensation_structures WHERE employee_id = $1
\* AND tenant_id = $2 AND effective_from <= $3 ORDER BY effective_from DESC
\* LIMIT 1: the rows the statement may return
PreviewCompensation(tenantId, employeeId, payrollMonthEnd) ==
    LET rows == {cs \in store.comps :
                    /\ cs.employee_id = employeeId
                    /\ cs.tenant_id = tenantId
                    /\ DayLeq(cs.effective_from, payrollMonthEnd)}
    IN  {cs \in rows : \A cs2 \in rows : DayLeq(cs2.effective_from, cs.effective_from)}

\* new Date(cycle.year, cycle.month, 0).toISOString() as the DATE the two
\* statements compare with: midnight of the month's last day in the server's
\* time zone, written in UTC.  It is that day for a server in UTC or west of
\* it and the day before for a server east of UTC.
PayrollMonthEnds(year, month) ==
    { <<year, month, DaysInMonth(year, month)>>,
      <<year, month, DaysInMonth(year, month) - 1>> }

\* SELECT ... FROM payroll.employees e WHERE e.tenant_id = $1 AND e.status =
\* 'active' AND (e.date_of_joining IS NULL OR e.date_of_joining <= $2)
PreviewEmployees(tenantId, payrollMonthEnd) ==
    { e \in store.employees :
        /\ e.tenant_id = tenantId
        /\ e.status = "active"
        /\ DayLeq(e.date_of_joining, payrollMonthEnd) }

\* the item pushed for an employee; of the response's fields, the gross
\* salary, the ESI deduction and the day counts
PreviewItem(tenantId, employeeId, compensation, month, year) ==
    LET monthlyBasic == NumberOrZero(compensation.basic_salary)
        monthlyHRA == NumberOrZero(compensation.hra)
        monthlySA == NumberOrZero(compensation.special_allowance)
        grossSalary == FAdd(FAdd(monthlyBasic, monthlyHRA), monthlySA)
        days == CalculateLopAndPaidDays(tenantId, employeeId, month, year)
        dailyRate == FDiv(grossSalary, days.totalWorkingDays \div 2)
        adjustedGross == FMulHalves(dailyRate, days.paidDays)
    IN  [employee_id |-> employeeId,
         gross_salary |-> adjustedGross,
         esi_deduction |-> EsiDeduction(adjustedGross),
         lop_days |-> days.lopDays,
         paid_days |-> days.paidDays,
         total_working_days |-> days.totalWorkingDays]

\* the bodies the preview of a cycle may send
PreviewBodiesAt(tenantId, month, year, payrollMonthEnd) ==
    LET paid == {e \in PreviewEmployees(tenantId, payrollMonthEnd) :
                    PreviewCompensation(tenantId, e.id, payrollMonthEnd) # {}}
        ids == {e.id : e \in paid}
        picks == {f \in [ids -> store.comps] :
                     \A id \in ids :
                         f[id] \in PreviewCompensation(tenantId, id, payrollMonthEnd)}
    IN  {{PreviewItem(tenantId, id, f[id], month, year) : id \in ids} : f \in picks}

PreviewBodies(tenantId, month, year) ==
    UNION { PreviewBodiesAt(tenantId, month, year, payrollMonthEnd) :
               payrollMonthEnd \in PayrollMonthEnds(year, month) }

\* GET /payroll-cycles/:cycleId/preview
Preview(c, cycleId) ==
    /\ UNCHANGED <<cycleVars, userVars, store, rec>>
    /\ audited' = {}
    /\ IF ~HasCapability(c, PAYROLL_RUN)
       THEN accResp' = Forbidden("preview")
       ELSE IF FindCycle(cycles, cycleId, c.tenant_id) = {}
       THEN accResp' = AccResponse("preview", 404, "Payroll cycle not found", {})
       ELSE \E body \in PreviewBodies(c.tenant_id, MonthOf(cycleId), YearOf(cycleId)) :
              accResp' = AccResponse("preview", 200, "-", body)

\* SELECT COALESCE(SUM(CASE WHEN is_lop THEN 1 ELSE 0 END), 0) FROM
\* payroll.attendance_records WHERE ... AND attendance_date BETWEEN $3 AND $4:
\* payroll.attendance_records has the columns date and status and neither
\* is_lop nor attendance_date, and the server refuses the statement with
\* SQLSTATE 42703 (undefined column)
SummaryAttendanceStatement == "42703"

\* the body sent to a caller without an employee row
EmptySummary(month, year) ==
    [month |-> month, year |-> year, totalWorkingDays |-> 0, lopDays |-> 0, paidDays |-> 0]

\* GET /leave-summary/me?month=&year=.  The leave query runs and writes
\* nothing; the attendance query that follows it throws.
LeaveSummary(c, month, year) ==
    /\ UNCHANGED <<cycleVars, userVars, store, rec>>
    /\ audited' = {}
    /\ IF ~HasCapability(c, LEAVE_REQUEST_OWN)
       THEN accResp' = Forbidden("leave_summary")
       ELSE IF EmployeeIdsOf(c.tenant_id, c.email) = {}
       THEN accResp' = AccResponse("leave_summary", 200, "-", {EmptySummary(month, year)})
       ELSE accResp' = AccResponse("leave_summary", 500, SummaryAttendanceStatement, {})

\* compensation rows: a gross of 21000.00 in round parts, the same gross in
\* uneven parts, 21000.01 from the last day of January 2025, a row of another
\* tenant, and the row of an employee who joins in March 2024
PreviewComps ==
    { CompRow("tA", "E1", <<2024, 1, 1>>, 2100000, 1000000, 800000, 300000),
      CompRow("tA", "E2", <<2024, 1, 1>>, 2100000, 1000000, 819212, 280788),
      CompRow("tA", "E1", <<2025, 1, 31>>, 2100001, 1000001, 800000, 300000),
      CompRow("tB", "E1", <<2024, 1, 1>>, 900000, 900000, 0, 0),
      CompRow("tB", "E3", <<2024, 1, 1>>, 900000, 900000, 0, 0) }

PreviewLeaves ==
    { LeaveRow("L1", "tA", "E1", "loss_of_pay", "approved", <<2024, 2, 10>>, <<2024, 2, 11>>, 4),
      LeaveRow("L2", "tA", "E1", "loss_of_pay", "approved", <<2025, 1, 20>>, <<2025, 2, 28>>, 80),
      LeaveRow("L3", "tA", "E1", "loss_of_pay", "pending", <<2024, 2, 20>>, <<2024, 2, 22>>, 6),
      LeaveRow("L4", "tA", "E1", "sick", "approved", <<2024, 2, 1>>, <<2024, 2, 1>>, 2),
      LeaveRow("L5", "tA", "E2", "loss_of_pay", "approved", <<2025, 1, 3>>, <<2025, 1, 3>>, 1),
      LeaveRow("L6", "tB", "E3", "loss_of_pay", "approved", <<2024, 12, 30>>, <<2025, 2, 2>>, 70),
      LeaveRow("L7", "tA", "E1", "loss_of_pay", "cancelled", <<2024, 2, 12>>, <<2024, 2, 12>>, 2) }

PreviewAttendance ==
    { AttendanceRow("A1", "tA", "E1", <<2024, 2, 5>>, "lop"),
      AttendanceRow("A2", "tA", "E1", <<2025, 1, 7>>, "lop"),
      AttendanceRow("A3", "tA", "E2", <<2025, 1, 8>>, "present") }

MaxLeaves == 2

MaxAttendance == 1

PreviewCycles ==
    [EmptyTable EXCEPT ![<<"tA", 2, 2024>>] = <<"draft">>,
                       ![<<"tA", 1, 2025>>] = <<"approved">>,
                       ![<<"tB", 2, 2024>>] = <<"draft">>]

InitPreview ==
    /\ cycles = PreviewCycles
    /\ now = FirstNow
    /\ flight = {}
    /\ resp = NoResp
    /\ IdleUsers
    /\ \E comps \in SUBSET PreviewComps, leaves \in SUBSET PreviewLeaves,
          attendance \in SUBSET PreviewAttendance :
              /\ Cardinality(PreviewComps \ comps) <= 1
              /\ \A cs \in PreviewComps \ comps : cs.tenant_id = "tA"
              /\ Cardinality(leaves) <= MaxLeaves
              /\ Cardinality(attendance) <= MaxAttendance
              /\ store = Store(Employees, comps, {}, leaves, attendance)
    /\ accResp = NoAccResp
    /\ rec = NoRec
    /\ audited = {}

\* the months of the model's calendar, with the days each has
Calendar ==
    { <<2024, 2, 29>>, <<2025, 2, 28>>, <<2025, 1, 31>>, <<2024, 4, 30>>, <<2024, 12, 31>> }

\* the callers of the preview and of the leave summary: an HR user of each
\* tenant, a director and the employees
PreviewCallers == {c \in Callers : "payroll" \notin c.roles}

NextPreview ==
    \E c \in PreviewCallers, cycleId \in RowIds(PreviewCycles) \cup {NoSuchId} :
        Preview(c, cycleId)

\* the leave summary, asked over the stored rows of the preview
NextSummary ==
    \E c \in PreviewCallers, ym \in Calendar : LeaveSummary(c, ym[2], ym[1])

SpecPreview == InitPreview /\ [][NextPreview]_vars

SpecSummary == InitPreview /\ [][NextSummary]_vars

\* C19: for every employee and month the computed totalWorkingDays D is the
\* number of calendar days of the month, and the computed paidDays is D - L
\* when 0 <= L <= D and 0 when L > D, with L the computed lopDays; paidDays
\* is never negative and never more than D.  (Day counts in half days.)
C19_PaidDaysClamped ==
    \A t \in Tenants, e \in EmployeeIds, ym \in Calendar :
        LET r == CalculateLopAndPaidDays(t, e, ym[2], ym[1])
            D == r.totalWorkingDays
            L == r.lopDays
        IN  /\ D = 2 * ym[3]
            /\ L >= 0
            /\ (L <= D) => r.paidDays = D - L
            /\ (L > D) => r.paidDays = 0
            /\ r.paidDays >= 0 /\ r.paidDays <= D

\* a preview of February 2024 has sent an item with 2 loss-of-pay days and
\* 27 paid days of 29
C19_Witness ==
    /\ accResp.op = "preview" /\ accResp.code = 200
    /\ \E i \in accResp.body :
          i.lop_days = 4 /\ i.paid_days = 54 /\ i.total_working_days = 58

\* C20: in every preview item the ESI deduction is 0.75% of the item's gross
\* when the loss-of-pay prorated gross of the compensation row, gross * paid
\* days / days of the month, is at most 21000, and is 0 when it is more.
C20_EsiCeilingInclusive ==
    [][ (accResp' # accResp /\ accResp'.op = "preview" /\ accResp'.code = 200) =>
            \A c \in Callers, cycleId \in RowIds(PreviewCycles) :
                Preview(c, cycleId) =>
                    \A i \in accResp'.body :
                        \E payrollMonthEnd \in PayrollMonthEnds(YearOf(cycleId),
                                                                 MonthOf(cycleId)) :
                        \E cs \in PreviewCompensation(c.tenant_id, i.employee_id,
                                                      payrollMonthEnd) :
                            LET gross == cs.basic_salary + cs.hra + cs.special_allowance
                            IN  IF gross * i.paid_days <= EsiCeiling * 100 * i.total_working_days
                                THEN /\ i.esi_deduction =
                                           FDiv(FMulThreeQuarters(i.gross_salary), 100)
                                     /\ (gross * i.paid_days > 0) => i.esi_deduction # Zero
                                ELSE i.esi_deduction = Zero
      ]_vars

----------------------------------------------------------------------------
(* Properties of the audit log *)

\* a step in which a handler ran up to its auditPayroll call
CreateInserted == TotalRows(cycles') > TotalRows(cycles)

ProcessUpdated == \E f \in flight : f \notin flight'

StatsComputed == accResp' # accResp /\ accResp'.op = "stats" /\ accResp'.code # 403

PayslipsSelected ==
    /\ accResp' # accResp /\ accResp'.op = "payslips"
    /\ OwnPayslipStatement = "ok"
    /\ \E c \in Callers : GetPayslips(c) /\ EmployeeIdsOf(c.tenant_id, c.email) # {}

SsoCommitted == \E p \in Procs : txs[p].pc = "commit" /\ txs'[p].pc = "idle"

\* C21: when the audit write fails, the stats read, the cycle creation, the
\* cycle processing, the payslip read and the SSO sign-in still send their
\* normal success response.
C21_AuditFailureNeverFails ==
    [][ audited' = {} =>
          /\ CreateInserted => resp' = Response("create", 201, "-")
          /\ ProcessUpdated => resp' = Response("process", 200, "-")
          /\ StatsComputed => accResp'.code = 200
          /\ PayslipsSelected => accResp'.code = 200
          /\ SsoCommitted => ssoResp'.code = 200
      ]_vars

\* the success responses of the routes that change a payroll cycle
CycleChangeSent ==
    /\ resp' # resp
    /\ resp'.op \in {"create", "submit", "approve", "reject", "process"}
    /\ resp'.code \in {200, 201}

\* the success responses of the routes that read payroll data
PayrollReadSent ==
    /\ accResp' # accResp
    /\ accResp'.op \in {"compensation", "payslips", "pdf", "preview", "stats"}
    /\ accResp'.code = 200

\* C22: every successful cycle create, submit, approve, reject and process,
\* every compensation read, payslip read, preview and aggregate read appends
\* at least one audit entry before its response is sent.
C22_EveryPayrollCallAudited ==
    [][ (CycleChangeSent \/ PayrollReadSent) => audited' # {} ]_vars

\* C23: submit, approve, reject and process called with a cycle id that has
\* no row in the caller's tenant answer 404 and change no cycle row.
C23_UnknownCycleIs404 ==
    [][ resp' # resp =>
          \A t \in Tenants, cid \in CycleTargets :
              ( /\ FindCycle(cycles, cid, t) = {}
                /\ \/ SubmitCycle(t, cid)
                   \/ ApproveCycle(t, cid)
                   \/ RejectCycle(t, cid)
                   \/ ProcessRead(t, cid) ) =>
                  resp'.code = 404 /\ cycles' = cycles
      ]_vars

----------------------------------------------------------------------------
(* Properties of the email link of upsertPayrollUser *)

\* C24: when no user row has the asserted external id but a row with the
\* asserted email exists, the call links that row in place (its hr_user_id
\* becomes the asserted id, also when it carried another one), finds it again
\* and commits without inserting; the number of rows grows, by exactly one,
\* only by the commit of a call that found neither match.
C24_LinkByEmailInPlace ==
    [][ /\ \A p \in Procs :
              LET u == txs[p].hrUser
                  byId == FindByHrId(users, u.hrUserId)
                  byEmail == FindByEmail(users, u.email)
              IN  (byId = {} /\ byEmail # {}) =>
                     /\ txs[p].pc = "resel" => FindByHrId(View(p), u.hrUserId) = byEmail
                     /\ (txs[p].pc = "commit" /\ ssoResp'.code = 200) =>
                            /\ Len(users') = Len(users)
                            /\ ssoResp'.uid \in byEmail
                            /\ \A i \in DOMAIN users :
                                  IF i \in byEmail
                                  THEN /\ users'[i].hr_user_id = u.hrUserId
                                       /\ users'[i].email = users[i].email
                                  ELSE users'[i] = users[i]
        /\ Len(users') # Len(users) =>
              \E p \in Procs :
                  /\ txs[p].pc = "commit"
                  /\ FindByHrId(users, txs[p].hrUser.hrUserId) = {}
                  /\ FindByEmail(users, txs[p].hrUser.email) = {}
                  /\ Len(users') = Len(users) + 1
      ]_vars

\* a call for external id h1 is about to commit the link of a row that is
\* linked to h2
C24_Witness ==
    \E i \in DOMAIN users :
        /\ txs[1].pc = "commit"
        /\ txs[1].ins = <<>>
        /\ i \in DOMAIN txs[1].upd
        /\ users[i].hr_user_id = "h2"
        /\ txs[1].hrUser.hrUserId = "h1"
        /\ txs[1].upd[i].hr_user_id = "h1"

----------------------------------------------------------------------------
(* Specification of GET /sso requests whose tokens differ in their roles *)

\* the roles claim of a token: no role, staff only, and spellings of the
\* administrative roles
RoleSets ==
    { {}, {Staff}, {<<"H", "R">>}, {<<"h", "r">>}, {<<"H", "r">>},
      {<<"A", "d", "m", "i", "n">>}, {<<"A", "D", "M", "I", "N">>},
      {Staff, <<"c", "e", "o">>}, {Staff, <<"C", "e", "o">>} }

RoleTokens ==
    { [GoodToken EXCEPT !.roles = roles, !.payroll_role = prole] :
        roles \in RoleSets, prole \in {"", "payroll_employee"} }

NextRoles ==
    \/ \E tok \in RoleTokens : SsoBegin(1, tok)
    \/ SelectByHrId(1)
    \/ UpdateByHrId(1)
    \/ SelectByEmail(1)
    \/ UpdateByEmail(1)
    \/ Reselect(1)
    \/ InsertUser(1)
    \/ CommitUser(1)
    \/ StatementFails(1)

SpecRoles == InitSso /\ [][NextRoles]_vars

\* the administrative HR roles, in lower case
AdminRoles == {<<"c", "e", "o">>, <<"a", "d", "m", "i", "n">>, <<"h", "r">>}

\* C25: when the token asserts no payroll_role, the derived role is
\* payroll_admin if and only if at least one asserted HR role equals CEO,
\* Admin or HR compared case-insensitively, and payroll_employee otherwise.
C25_AdminRolesAnyCase ==
    [][ \A tok \in RoleTokens :
          (SsoBegin(1, tok) /\ tok.payroll_role = "" /\ txs'[1].pc = "sel1") =>
              txs'[1].hrUser.payrollRole =
                  IF \E role \in tok.roles : ToLowerCase(role) \in AdminRoles
                  THEN "payroll_admin"
                  ELSE "payroll_employee"
      ]_vars

----------------------------------------------------------------------------
(* Properties of the loss-of-pay days *)

\* the date range of a leave request and the month have a day in common
Overlaps(l, year, month) ==
    /\ DayLeq(l.start_date, <<year, month, DaysInMonth(year, month)>>)
    /\ DayLeq(<<year, month, 1>>, l.end_date)

\* the leave requests that count: approved, loss of pay, of the employee in
\* the tenant, overlapping the month
CountedLeaves(t, e, year, month) ==
    { l \in store.leaves :
        /\ l.status = "approved" /\ l.leave_type = "loss_of_pay"
        /\ l.employee_id = e /\ l.tenant_id = t
        /\ Overlaps(l, year, month) }

\* the attendance records that count: flagged loss of pay, of the employee
\* in the tenant, dated within the month
CountedAttendance(t, e, year, month) ==
    { a \in store.attendance :
        /\ a.status = "lop"
        /\ a.employee_id = e /\ a.tenant_id = t
        /\ DayLeq(<<year, month, 1>>, a.date)
        /\ DayLeq(a.date, <<year, month, DaysInMonth(year, month)>>) }

RECURSIVE SumDays(_)
SumDays(rows) ==
    IF rows = {} THEN 0
    ELSE LET l == CHOOSE l \in rows : TRUE IN l.days + SumDays(rows \ {l})

\* C26: lopDays of an employee and month is the sum of days over the
\* employee's approved loss_of_pay leave requests whose date range overlaps
\* the month plus the number of the employee's attendance records flagged
\* loss of pay and dated within the month; no other row contributes.  (Day
\* counts in half days.)
C26_LopDaysCounted ==
    \A t \in Tenants, e \in EmployeeIds, ym \in Calendar :
        CalculateLopAndPaidDays(t, e, ym[2], ym[1]).lopDays =
            SumDays(CountedLeaves(t, e, ym[1], ym[2]))
               + 2 * Cardinality(CountedAttendance(t, e, ym[1], ym[2]))

\* a preview of February 2024 has sent an item with 3 loss-of-pay days, two
\* of a leave request and one of an attendance record, while a pending or
\* cancelled request or one of another type is stored for the employee
C26_Witness ==
    /\ accResp.op = "preview" /\ accResp.code = 200
    /\ \E i \in accResp.body : i.employee_id = "E1" /\ i.lop_days = 6
    /\ \E l \in store.leaves :
          /\ l.employee_id = "E1" /\ l.start_date[1] = 2024
          /\ l.status # "approved" \/ l.leave_type # "loss_of_pay"

----------------------------------------------------------------------------
(* Properties of the preview's items *)

\* the last day of a month
MonthEnd(year, month) == <<year, month, DaysInMonth(year, month)>>

\* the compensation rows of an employee in a tenant that are effective on or
\* before a day
EffectiveBy(t, e, day) ==
    { cs \in store.comps :
        cs.tenant_id = t /\ cs.employee_id = e /\ DayLeq(cs.effective_from, day) }

\* of these, the rows with the latest effective_from
LatestBy(t, e, day) ==
    { cs \in EffectiveBy(t, e, day) :
        \A cs2 \in EffectiveBy(t, e, day) : DayLeq(cs2.effective_from, cs.effective_from) }

\* C27: a preview returns exactly one item for each active employee of the
\* cycle's tenant that has a compensation row with effective_from on or
\* before the cycle's month-end, computed from the row with the latest such
\* effective_from, and no item for any other employee.
C27_PreviewItemPerPaidEmployee ==
    [][ (accResp' # accResp /\ accResp'.op = "preview" /\ accResp'.code = 200) =>
            \A c \in Callers, cycleId \in RowIds(cycles) :
                Preview(c, cycleId) =>
                    LET t == c.tenant_id
                        day == MonthEnd(YearOf(cycleId), MonthOf(cycleId))
                        due == { e.id : e \in { x \in store.employees :
                                                  /\ x.tenant_id = t
                                                  /\ x.status = "active"
                                                  /\ EffectiveBy(t, x.id, day) # {} } }
                    IN  /\ {i.employee_id : i \in accResp'.body} = due
                        /\ Cardinality(accResp'.body) = Cardinality(due)
                        /\ \A i \in accResp'.body :
                              \E cs \in LatestBy(t, i.employee_id, day) :
                                  i = PreviewItem(t, i.employee_id, cs,
                                                  MonthOf(cycleId), YearOf(cycleId))
      ]_vars

----------------------------------------------------------------------------
(* Properties of concurrent requests on one cycle *)

\* C28: under any interleaving of process, reject, submit and approve
\* requests on a cycle, its status is written to processing only at a moment
\* when its stored status is approved.
C28_ProcessWritesOnlyApproved ==
    [][ \A id \in ChangedIds :
            StatusOf(cycles', id) = "processing" => StatusOf(cycles, id) = "approved"
      ]_vars

----------------------------------------------------------------------------
(* Specification of the routes that create employees and compensation rows *)

\* the users who send the requests: an HR user of each tenant and an employee
TenancyCallers == {c \in Callers : c.id \in {"uHrA", "uHrB", "uE1A"}}

InitTenancy ==
    /\ IdleCycles
    /\ IdleUsers
    /\ store = Store(Employees, {}, {}, {}, {})
    /\ accResp = NoAccResp
    /\ rec = NoRec
    /\ audited = {}

NextTenancy ==
    \/ \E c \in TenancyCallers, body \in EmployeeBodies : PostEmployee(c, body)
    \/ \E c \in TenancyCallers, body \in CompBodies,
          eid \in {e.id : e \in store.employees} \cup {NoEmployee} :
              PostCompensation(c, eid, body)

SpecTenancy == InitTenancy /\ [][NextTenancy]_vars

\* C29: after any sequence of POST /employees and POST
\* /employees/:employeeId/compensation requests by users of several tenants,
\* every compensation row has the tenant_id of the employee it references.
C29_CompensationInEmployeesTenant ==
    \A cs \in store.comps :
        \E e \in store.employees : e.id = cs.employee_id /\ e.tenant_id = cs.tenant_id

----------------------------------------------------------------------------
(* Properties of the leave summary *)

\* C30: for a caller with an employee row, a month and a year, GET
\* /leave-summary/me reports the totalWorkingDays, lopDays and paidDays that
\* calculateLopAndPaidDays gives for that tenant, employee, month and year
\* over the same stored rows.
C30_SummaryAgreesWithPayroll ==
    [][ (accResp' # accResp /\ accResp'.op = "leave_summary") =>
            \A c \in PreviewCallers, ym \in Calendar :
                ( /\ LeaveSummary(c, ym[2], ym[1])
                  /\ HasCapability(c, LEAVE_REQUEST_OWN)
                  /\ EmployeeIdsOf(c.tenant_id, c.email) # {} ) =>
                    /\ accResp'.code = 200
                    /\ \E employeeId \in EmployeeIdsOf(c.tenant_id, c.email) :
                          LET days == CalculateLopAndPaidDays(c.tenant_id, employeeId,
                                                              ym[2], ym[1])
                          IN  \A r \in accResp'.body :
                                /\ r.totalWorkingDays = days.totalWorkingDays
                                /\ r.lopDays = days.lopDays
                                /\ r.paidDays = days.paidDays
      ]_vars

====
